---- MODULE Spec2Model ----
(***************************************************************************)
(* The repair loop and the sandbox executor of agent-fix                   *)
(* (src/app/api/code-fix/route.ts).                                        *)
(*                                                                         *)
(* streamFixProcess is modelled step by step: one action per stretch of    *)
(* code between two awaits.  The reasoning service, the test process and   *)
(* the package installer are the environment: their answers are drawn      *)
(* from small sets.  runPythonCode is modelled on its own, statement by    *)
(* statement, with the file system it writes to.                           *)
(***************************************************************************)
EXTENDS Integers, Sequences, FiniteSets, TLC

(***************************************************************************)
(* Bounds of the exploration.                                              *)
(***************************************************************************)
\* Reasoning-service calls explored while the conversation is kept.
MaxCycles == 3
\* Value at which the call counters stop counting when it is not kept.
MaxCount == 6
\* Largest value of Date.now() explored.
MaxClock == 1
\* Longest stderr text of an install process explored.
MaxText == 2

(***************************************************************************)
(* Program constants.                                                      *)
(***************************************************************************)
maxAttempts == 5

Null == "null"
\* successfulTestCases before any success (null, line 80).
NoTests == <<Null>>
Undefined == "undefined"

(***************************************************************************)
(* Data the environment can hand to the loop.                              *)
(***************************************************************************)
\* Tool-call arguments as the reasoning service sends them: a JSON text.
\* "bad" does not parse; "obj" parses to the object in .value.
BadJson == [json |-> "bad"]

EmptyObject == [fields |-> {}]

RunParams ==
    { [fields |-> {"code", "testCases"}, code |-> "", testCases |-> <<"t1">>],
      [fields |-> {"code", "testCases"}, code |-> "fix", testCases |-> <<"t1", "t2">>] }

DepParams ==
    { [fields |-> {"dependency"}, dependency |-> <<"a">>],
      [fields |-> {"dependency"}, dependency |-> <<"b">>] }

RunArguments == {BadJson} \cup {[json |-> "obj", value |-> v] : v \in RunParams \cup {EmptyObject}}

DepArguments == {BadJson} \cup {[json |-> "obj", value |-> v] : v \in DepParams \cup {EmptyObject}}

ToolCalls ==
    {[id |-> "call", name |-> "run_python_code", arguments |-> a] : a \in RunArguments}
    \cup {[id |-> "call", name |-> "download_dependency", arguments |-> a] : a \in DepArguments}
    \cup {[id |-> "call", name |-> "other_tool", arguments |-> BadJson]}

NoToolCall == [id |-> "", name |-> "", arguments |-> BadJson]

\* Output texts are sequences of tokens.  MNF stands for the text
\* "ModuleNotFoundError: No module named "; Q1 and Q2 are the two quotes.
MNF == "ModuleNotFoundError: No module named "
Q1 == "'"
Q2 == "\""
Quotes == {Q1, Q2}

PassedOutput == <<"TEST_PASSED">>

FailOutputs ==
    { <<"TEST_FAILED", MNF, Q1, Q2>>,
      <<MNF, Q1, "a", Q1>>,
      <<"Traceback", MNF, Q2, "b", Q1, "x">> }

\* What runPythonCode can return (lines 47, 49, 52).
RunResults ==
    {[success |-> TRUE, output |-> PassedOutput]}
    \cup {[success |-> FALSE, output |-> o] : o \in FailOutputs \cup {<<"Command failed">>}}

\* What downloadDependency can return (lines 65, 67, 69).
DepResults ==
    { [success |-> TRUE, output |-> <<"Successfully installed">>],
      [success |-> FALSE, output |-> <<"ERROR">>],
      [success |-> FALSE, output |-> <<"Command failed">>] }

NoResult == [success |-> FALSE, output |-> <<>>]

(***************************************************************************)
(* Pure helpers.                                                           *)
(***************************************************************************)
Min(a, b) == IF a < b THEN a ELSE b

\* JavaScript truthiness of a string-or-null value: !successfulCode is
\* true for null, for undefined and for the empty string.
Truthy(v) == v # Null /\ v # Undefined /\ v # ""

\* JSON.parse(toolCall.function.arguments): throws on text that is no JSON.
ParseOk(arguments) == arguments.json = "obj"

\* params.code of a parsed object: undefined when the field is absent.
CodeOf(params) == IF "code" \in params.fields THEN params.code ELSE Undefined

\* params.dependency as it appears in a command line or a message: the
\* text "undefined" when the field is absent.
DependencyOf(params) ==
    IF "dependency" \in params.fields THEN params.dependency ELSE <<Undefined>>

\* The value of a failed String.prototype.match.
NoMatch == <<>>

\* Length of the longest run of non-quote tokens of s starting at index i.
RECURSIVE NameLen(_, _)
NameLen(s, i) ==
    IF i > Len(s) \/ s[i] \in Quotes THEN 0 ELSE 1 + NameLen(s, i + 1)

\* The pattern /ModuleNotFoundError: No module named ['"]([^'"]+)['"]/ at
\* index i of s: the prefix, a quote, one or more non-quote tokens (greedy),
\* a quote.
MatchesAt(s, i) ==
    /\ i + 1 <= Len(s)
    /\ s[i] = MNF
    /\ s[i + 1] \in Quotes
    /\ NameLen(s, i + 2) >= 1
    /\ i + 2 + NameLen(s, i + 2) <= Len(s)
    /\ s[i + 2 + NameLen(s, i + 2)] \in Quotes

\* result.output.match(...): null, or the first capture group of the
\* leftmost match.
MissingDepMatch(output) ==
    LET hits == {i \in 1..Len(output) : MatchesAt(output, i)}
    IN  IF hits = {} THEN NoMatch
        ELSE LET i == CHOOSE j \in hits : \A k \in hits : j <= k
             IN  SubSeq(output, i + 2, i + 1 + NameLen(output, i + 2))

(***************************************************************************)
(* State.                                                                  *)
(***************************************************************************)
VARIABLES
    hist,                 \* TRUE: chatMessages and events are kept in full
    pc,                   \* where streamFixProcess is suspended
    attempt,              \* let attempt (line 78)
    successfulCode,       \* line 79
    successfulTestCases,  \* line 80
    chatMessages,         \* line 82
    events,               \* the texts yielded so far (the progress stream)
    toolCall,             \* message.tool_calls[0] of the current cycle
    result,               \* result of the last runPythonCode call
    missingDependency,    \* line 233
    depResult,            \* result of the last downloadDependency call
    llmCalls,             \* number of chat.completions.create calls
    runTestCalls,         \* number of runPythonCode calls
    installCalls,         \* number of downloadDependency calls
    plainFails,           \* number of failed runs without a missing module
    testPassed,           \* some runPythonCode call returned success
    outstanding,          \* the awaited operations that have not settled
    conversation,         \* const conversation (line 88) of the last call
    cycleStart,           \* chatMessages.length when the last call was made
    clock,                \* Date.now()
    files,                \* the temporary directory: path -> file
    runs,                 \* the runPythonCode calls in progress
    install,              \* a downloadDependency call
    codeIndex,            \* let codeIndex (tokenize/route.ts line 15)
    reqs,                 \* the requests to the tokenize route in progress
    everIndexed,          \* some index request has stored its records
    fetch,                \* one fetchEmbedding call: its locals and its calls
    chunk,                \* one chunkText call: its arguments and locals
    embed,                \* one getEmbedding call: its chunks and their embeddings
    cos                   \* one cosineSimilarity call: its arguments and locals

sessionVars == <<hist, pc, attempt, successfulCode, successfulTestCases, chatMessages,
                 events, toolCall, result, missingDependency, depResult, llmCalls,
                 runTestCalls, installCalls, plainFails, testPassed, outstanding,
                 conversation, cycleStart>>

sandboxVars == <<clock, files, runs>>

installVars == <<install>>

indexVars == <<codeIndex, reqs, everIndexed>>

\* The state of src/app/api/tokenize/route.ts.
embedVars == <<fetch>>

chunkVars == <<chunk>>

getEmbeddingVars == <<embed>>

cosineVars == <<cos>>

tokenizeVars == <<indexVars, embedVars, chunkVars, getEmbeddingVars, cosineVars>>

\* The state of src/app/api/code-fix/route.ts.
codeFixVars == <<sessionVars, sandboxVars, installVars>>

\* What streamFixProcess, runPythonCode and downloadDependency leave alone.
outsideSession == <<sandboxVars, installVars, tokenizeVars>>

outsideSandbox == <<sessionVars, installVars, tokenizeVars>>

outsideInstall == <<sessionVars, sandboxVars, tokenizeVars>>

\* What the index and query requests, fetchEmbedding and chunkText leave
\* alone.
outsideIndex == <<codeFixVars, embedVars, chunkVars, getEmbeddingVars, cosineVars>>

outsideEmbed == <<codeFixVars, indexVars, chunkVars, getEmbeddingVars, cosineVars>>

outsideChunk == <<codeFixVars, indexVars, embedVars, getEmbeddingVars, cosineVars>>

outsideGetEmbedding == <<codeFixVars, indexVars, embedVars, chunkVars, cosineVars>>

outsideCosine == <<codeFixVars, indexVars, embedVars, chunkVars, getEmbeddingVars>>

vars == <<codeFixVars, tokenizeVars>>

Prompt == "prompt"

\* Push putting the turns before the conversation.
PushFront(ts) == chatMessages' = IF hist THEN ts \o chatMessages ELSE chatMessages

\* chatMessages.push(...) of the turns ts, in order.
Push(ts) == chatMessages' = IF hist THEN chatMessages \o ts ELSE chatMessages

\* yield of the texts es, in order.
Emit(es) == events' = IF hist THEN events \o es ELSE es

Count(n) == IF hist THEN n + 1 ELSE Min(n + 1, MaxCount)

UserTurn(kind, about) == [role |-> "user", kind |-> kind, about |-> about, tool_call_id |-> ""]

ToolTurn(content, id) == [role |-> "tool", kind |-> "result", about |-> content, tool_call_id |-> id]

Event(kind, about) == [kind |-> kind, about |-> about]

\* chatMessages.push({role: "tool", ...}) guarded by if (toolCallId).
ToolTurns(content, id) == IF id # "" THEN <<ToolTurn(content, id)>> ELSE <<>>

InitSession(h) ==
    /\ hist = h
    /\ pc = "loop"
    /\ attempt = 0
    /\ successfulCode = Null
    /\ successfulTestCases = NoTests
    /\ chatMessages = <<UserTurn("prompt", Prompt)>>
    /\ events = <<>>
    /\ toolCall = NoToolCall
    /\ result = NoResult
    /\ missingDependency = NoMatch
    /\ depResult = NoResult
    /\ llmCalls = 0
    /\ runTestCalls = 0
    /\ installCalls = 0
    /\ plainFails = 0
    /\ testPassed = FALSE
    /\ outstanding = {}
    /\ conversation = <<>>
    /\ cycleStart = 0

(***************************************************************************)
(* The sandbox: runPythonCode (lines 10-57) and the temporary directory.   *)
(***************************************************************************)
\* Two calls of runPythonCode, of two sessions or of one.
Callers == {1, 2}

\* Values of Date.now(), which name the temporary files (line 40).
Paths == 0..MaxClock

\* Lines 18-36: the program text written to the file.
Assemble(params) == [code |-> params.code, tests |-> params.testCases]

NoFile == [by |-> 0, text |-> [code |-> Null, tests |-> NoTests]]

NoProc == [exit |-> 0, killed |-> FALSE, stdout |-> <<>>, stderr |-> <<>>]

IdleRun(params) ==
    [pc |-> "idle", params |-> params, path |-> 0, ran |-> NoFile,
     proc |-> NoProc, ret |-> NoResult, unlink |-> "none"]

InitSandbox(ps) ==
    /\ clock = 0
    /\ files = [p \in Paths |-> NoFile]
    /\ runs = [c \in Callers |-> IdleRun(ps[c])]

AnyRunParams == CHOOSE v \in RunParams : TRUE

\* No runPythonCode call has started.
SandboxIdle == InitSandbox([c \in Callers |-> AnyRunParams])

(***************************************************************************)
(* downloadDependency (lines 59-71): the state of one call.                *)
(***************************************************************************)
IdleInstall(dep) == [pc |-> "idle", dependency |-> dep, proc |-> NoProc, ret |-> NoResult]

\* No downloadDependency call has started.
InstallIdle == install = IdleInstall(<<"a">>)

(***************************************************************************)
(* The tokenize route (src/app/api/tokenize/route.ts): data.               *)
(***************************************************************************)
\* The request slots: requests that can be in progress at the same time.
Reqs == {1, 2}

\* A response of the route: NextResponse.json(body, {status}).
Response(status, error, fileCount, results) ==
    [status |-> status, error |-> error, fileCount |-> fileCount, results |-> results]

NoResponse == Response(0, "", 0, <<>>)

IdleReq ==
    [kind |-> "none", pc |-> "idle", files |-> <<>>, results |-> <<>>,
     query |-> "", calls |-> 0, order |-> <<>>, response |-> NoResponse]

\* Line 15: the index is empty and no request is in progress.
IndexIdle ==
    /\ codeIndex = <<>>
    /\ reqs = [r \in Reqs |-> IdleReq]
    /\ everIndexed = FALSE

\* The tokenize route is at rest.
\* No fetchEmbedding call has been made.
IdleFetch ==
    [pc |-> "idle", retryCount |-> 0, waitTime |-> 0, log |-> <<>>, waits |-> <<>>,
     error |-> ""]

EmbedIdle == fetch = IdleFetch

\* No chunkText call has been made.
IdleChunk ==
    [pc |-> "idle", text |-> <<>>, maxTokens |-> 0, tokens |-> <<>>, i |-> 0,
     windows |-> <<>>, chunks |-> <<>>]

ChunkIdle == chunk = IdleChunk

\* No getEmbedding call has been made.
IdleGetEmbedding ==
    [pc |-> "idle", text |-> <<>>, chunks |-> <<>>, embeddings |-> <<>>, done |-> {},
     calls |-> <<>>, result |-> <<>>]

GetEmbeddingIdle == embed = IdleGetEmbedding

\* No cosineSimilarity call has been made.
IdleCosine ==
    [pc |-> "idle", vecA |-> <<>>, vecB |-> <<>>, i |-> 0, dotProduct |-> 0,
     normA |-> 0, normB |-> 0, result |-> [num |-> 0, den2 |-> 1]]

CosineIdle == cos = IdleCosine

TokenizeIdle == IndexIdle /\ EmbedIdle /\ ChunkIdle /\ GetEmbeddingIdle /\ CosineIdle

\* Everything but the repair session is at rest.
OutsideSessionIdle == SandboxIdle /\ InstallIdle /\ TokenizeIdle

Init ==
    /\ InitSession(TRUE)
    /\ OutsideSessionIdle

InitLoop ==
    /\ InitSession(FALSE)
    /\ OutsideSessionIdle


(***************************************************************************)
(* streamFixProcess (lines 73-277).                                        *)
(***************************************************************************)
\* An operation is called: it is outstanding until it settles.
Started(out, op) == out \cup {op}

SettledUnawaited(out, op) == out

\* await (lines 90, 170, 214, 235): the function goes on when the
\* operation has settled.
Settled(out, op) == out \ {op}

\* Line 88: chatMessages.filter((msg) => msg.role !== "tool").
WithoutToolTurns(messages) == SelectSeq(messages, LAMBDA msg : msg.role # "tool")

\* LoopGuard with the comparison off by one (<= for <).
LoopGuardInclusive == attempt <= maxAttempts /\ ~Truthy(successfulCode)

\* while (attempt < maxAttempts && !successfulCode), line 84.
LoopGuard == attempt < maxAttempts /\ ~Truthy(successfulCode)

\* Lines 272-276: the terminal text.
Final(code, tests) ==
    IF ~Truthy(code)
    THEN Event("Failed to generate a working fix", <<maxAttempts>>)
    ELSE Event("Final working fix", <<code, tests>>)

\* AttemptAfterInstall counting every install, successful or not.
AttemptAfterInstallAlways(dr, a) == a + 1

\* AttemptAfterInstall counting no install, failed or not.
AttemptAfterInstallNever(dr, a) == a

\* attempt after a downloadDependency result (lines 178-191, 237-248).
AttemptAfterInstall(dr, a) == IF dr.success THEN a ELSE a + 1

\* AttemptAfterTestFailure giving up at once.
AttemptAfterTestFailureEscalated(a) == maxAttempts

\* AttemptAfterTestFailure counting the failed run twice.
AttemptAfterTestFailureTwice(a) == a + 2

\* AttemptAfterTestFailure without the increment of line 256.
AttemptAfterTestFailureForgotten(a) == a

\* attempt after a failed run without a missing module (line 256).
AttemptAfterTestFailure(a) == a + 1

\* AttemptAfterNoAction without the increments of lines 261 and 265.
AttemptAfterNoActionSkipped(a) == a

\* attempt after a response with no tool call or with a tool call of
\* another name (lines 261, 265).
AttemptAfterNoAction(a) == a + 1

\* attempt after the catch clause of lines 267-270.
AttemptAfterError(a) == a + 1

\* Counters a step leaves alone.
SameCalls == UNCHANGED <<runTestCalls, installCalls, plainFails, testPassed, outsideSession>>

\* Lines 84-142: the loop is entered, the attempt is announced and the
\* conversation without its tool turns is sent to the reasoning service.
Generate ==
    /\ pc = "loop"
    /\ LoopGuard
    /\ hist => llmCalls < MaxCycles
    /\ Emit(<<Event("Attempt", <<attempt + 1>>)>>)
    /\ llmCalls' = Count(llmCalls)
    /\ pc' = "llm"
    /\ UNCHANGED <<hist, attempt, successfulCode, successfulTestCases, chatMessages,
                   toolCall, result, missingDependency, depResult>>
    /\ SameCalls
    /\ outstanding' = Started(outstanding, "llm")
    /\ conversation' = WithoutToolTurns(chatMessages)
    /\ cycleStart' = Len(chatMessages)

\* Lines 272-276, reached when the test of line 84 fails or by the break
\* of line 228.
Finish ==
    /\ \/ pc = "loop" /\ ~LoopGuard
       \/ pc = "final"
    /\ Emit(<<Final(successfulCode, successfulTestCases)>>)
    /\ pc' = "done"
    /\ UNCHANGED <<hist, attempt, successfulCode, successfulTestCases, chatMessages,
                   toolCall, result, missingDependency, depResult, llmCalls>>
    /\ SameCalls
    /\ UNCHANGED <<outstanding, conversation, cycleStart>>

\* The call of line 90 rejects: lines 267-270.
GenerationError ==
    /\ pc = "llm"
    /\ Emit(<<Event("Error during generation", <<"create">>)>>)
    /\ attempt' = AttemptAfterError(attempt)
    /\ pc' = "loop"
    /\ UNCHANGED <<hist, successfulCode, successfulTestCases, chatMessages, toolCall,
                   result, missingDependency, depResult, llmCalls>>
    /\ SameCalls
    /\ outstanding' = Settled(outstanding, "llm")
    /\ UNCHANGED <<conversation, cycleStart>>

\* Lines 144-146 and 263-266: the response carries no tool call.
NoFunctionCall ==
    /\ pc = "llm"
    /\ toolCall' = NoToolCall
    /\ Emit(<<Event("No function call received", <<>>)>>)
    /\ attempt' = AttemptAfterNoAction(attempt)
    /\ pc' = "loop"
    /\ UNCHANGED <<hist, successfulCode, successfulTestCases, chatMessages, result,
                   missingDependency, depResult, llmCalls>>
    /\ SameCalls
    /\ outstanding' = Settled(outstanding, "llm")
    /\ UNCHANGED <<conversation, cycleStart>>

\* Lines 259-262: a tool call of another name.
UnknownToolCall ==
    /\ pc = "llm"
    /\ \E tc \in ToolCalls :
        /\ tc.name \notin {"download_dependency", "run_python_code"}
        /\ toolCall' = tc
    /\ Emit(<<Event("Unknown tool call received", <<>>)>>)
    /\ attempt' = AttemptAfterNoAction(attempt)
    /\ pc' = "loop"
    /\ UNCHANGED <<hist, successfulCode, successfulTestCases, chatMessages, result,
                   missingDependency, depResult, llmCalls>>
    /\ SameCalls
    /\ outstanding' = Settled(outstanding, "llm")
    /\ UNCHANGED <<conversation, cycleStart>>

\* Lines 150-168 and 194-212: JSON.parse of the arguments throws.
ParseError ==
    /\ pc = "llm"
    /\ \E tc \in ToolCalls :
        /\ tc.name \in {"download_dependency", "run_python_code"}
        /\ ~ParseOk(tc.arguments)
        /\ toolCall' = tc
        /\ Push(ToolTurns(<<"Error parsing function arguments", tc.name>>, tc.id)
                \o <<UserTurn("could not be parsed", <<tc.name>>)>>)
        /\ Emit(<<Event("Error parsing", <<tc.name>>)>>)
    /\ attempt' = attempt + 1
    /\ pc' = "loop"
    /\ UNCHANGED <<hist, successfulCode, successfulTestCases, result,
                   missingDependency, depResult, llmCalls>>
    /\ SameCalls
    /\ outstanding' = Settled(outstanding, "llm")
    /\ UNCHANGED <<conversation, cycleStart>>

\* Lines 149-170: a download_dependency call whose arguments parse;
\* downloadDependency is started.
DispatchInstall ==
    /\ pc = "llm"
    /\ \E tc \in ToolCalls :
        /\ tc.name = "download_dependency"
        /\ ParseOk(tc.arguments)
        /\ toolCall' = tc
        /\ Emit(<<Event("Downloading dependency", <<DependencyOf(tc.arguments.value)>>)>>)
    /\ installCalls' = Count(installCalls)
    /\ pc' = "install"
    /\ UNCHANGED <<hist, attempt, successfulCode, successfulTestCases, chatMessages,
                   result, missingDependency, depResult, llmCalls, runTestCalls,
                   plainFails, testPassed, outsideSession>>
    /\ outstanding' = Started(Settled(outstanding, "llm"), "install")
    /\ UNCHANGED <<conversation, cycleStart>>

\* Lines 170-192: downloadDependency has returned dr.
InstallReturn ==
    /\ pc = "install"
    /\ \E dr \in DepResults :
        LET dep == DependencyOf(toolCall.arguments.value) IN
        /\ depResult' = dr
        /\ Push(ToolTurns(<<dr>>, toolCall.id)
                \o <<IF dr.success
                     THEN UserTurn("Successfully installed dependency", <<dep>>)
                     ELSE UserTurn("Failed to install dependency", <<dep, dr.output>>)>>)
        /\ Emit(<<IF dr.success
                  THEN Event("Dependency installed successfully", <<dep>>)
                  ELSE Event("Failed to install dependency", <<dep, dr.output>>)>>)
        /\ attempt' = AttemptAfterInstall(dr, attempt)
    /\ pc' = "loop"
    /\ UNCHANGED <<hist, successfulCode, successfulTestCases, toolCall, result,
                   missingDependency, llmCalls>>
    /\ SameCalls
    /\ outstanding' = Settled(outstanding, "install")
    /\ UNCHANGED <<conversation, cycleStart>>

\* runPythonCode(params) reaches its try block: before it, line 18 reads
\* testCases.map, which throws when the parsed object has no testCases.
RunStarts(params) == "testCases" \in params.fields

\* Lines 193-214: a run_python_code call whose arguments parse; the text
\* is yielded and runPythonCode is called.  When the call throws before its
\* try block the rejection lands in the catch clause of lines 267-270.
DispatchTest ==
    /\ pc = "llm"
    /\ \E tc \in ToolCalls :
        /\ tc.name = "run_python_code"
        /\ ParseOk(tc.arguments)
        /\ toolCall' = tc
        /\ IF RunStarts(tc.arguments.value)
           THEN /\ Emit(<<Event("Generated code fix. Running test cases...", <<>>)>>)
                /\ pc' = "test"
                /\ outstanding' = Started(Settled(outstanding, "llm"), "test")
                /\ UNCHANGED attempt
           ELSE /\ Emit(<<Event("Generated code fix. Running test cases...", <<>>),
                          Event("Error during generation", <<"runPythonCode">>)>>)
                /\ attempt' = AttemptAfterError(attempt)
                /\ pc' = "loop"
                /\ outstanding' = Settled(outstanding, "llm")
    /\ runTestCalls' = Count(runTestCalls)
    /\ UNCHANGED <<conversation, cycleStart>>
    /\ UNCHANGED <<hist, successfulCode, successfulTestCases, chatMessages, result,
                   missingDependency, depResult, llmCalls, installCalls, plainFails, testPassed,
                   outsideSession>>

\* Lines 224-228.
TestSucceeded(r) ==
    LET params == toolCall.arguments.value IN
    /\ r.success
    /\ Push(ToolTurns(<<r>>, toolCall.id))
    /\ successfulCode' = CodeOf(params)
    /\ successfulTestCases' = params.testCases
    /\ Emit(<<Event("Test cases passed!", <<attempt + 1>>)>>)
    /\ testPassed' = TRUE
    /\ pc' = "final"
    /\ UNCHANGED <<attempt, missingDependency, installCalls, plainFails>>
    /\ outstanding' = Settled(outstanding, "test")

\* Lines 229-236: the failed output names a missing module; the install
\* of it is started.
TestMissingDependency(r) ==
    /\ ~r.success
    /\ MissingDepMatch(r.output) # NoMatch
    /\ Push(ToolTurns(<<r>>, toolCall.id))
    /\ missingDependency' = MissingDepMatch(r.output)
    /\ Emit(<<Event("Missing dependency detected", <<missingDependency'>>)>>)
    /\ installCalls' = Count(installCalls)
    /\ pc' = "autoinstall"
    /\ UNCHANGED <<attempt, successfulCode, successfulTestCases, plainFails, testPassed>>
    /\ outstanding' = Started(Settled(outstanding, "test"), "install")

\* Lines 250-257: any other failed run.
TestFailed(r) ==
    LET params == toolCall.arguments.value IN
    /\ ~r.success
    /\ MissingDepMatch(r.output) = NoMatch
    /\ Push(ToolTurns(<<r>>, toolCall.id)
            \o <<UserTurn("The tests failed with the error", <<r.output, CodeOf(params), Prompt>>)>>)
    /\ Emit(<<Event("Test cases failed", <<attempt + 1, r.output>>)>>)
    /\ attempt' = AttemptAfterTestFailure(attempt)
    /\ plainFails' = Count(plainFails)
    /\ pc' = "loop"
    /\ UNCHANGED <<successfulCode, successfulTestCases, missingDependency,
                   installCalls, testPassed>>
    /\ outstanding' = Settled(outstanding, "test")

\* Lines 214-258: runPythonCode has returned r.
RunTestReturn ==
    /\ pc = "test"
    /\ \E r \in RunResults :
        /\ result' = r
        /\ \/ TestSucceeded(r)
           \/ TestMissingDependency(r)
           \/ TestFailed(r)
    /\ UNCHANGED <<hist, toolCall, depResult, llmCalls, runTestCalls, outsideSession>>
    /\ UNCHANGED <<conversation, cycleStart>>

\* AutoInstallTurns without the retry prompt of lines 238-241.
AutoInstallTurnsFailureOnly(dr, dep) ==
    IF dr.success
    THEN <<>>
    ELSE <<UserTurn("Failed to install dependency, check", <<dep, dr.output>>)>>

\* Lines 237-247: the turns pushed after the install of dep returned dr.
AutoInstallTurns(dr, dep) ==
    IF dr.success
    THEN <<UserTurn("installed successfully. Please retry", <<dep>>)>>
    ELSE <<UserTurn("Failed to install dependency, check", <<dep, dr.output>>)>>

\* Lines 235-249: the install started after a missing module has returned.
AutoInstallReturn ==
    /\ pc = "autoinstall"
    /\ \E dr \in DepResults :
        /\ depResult' = dr
        /\ Emit(<<Event("Dependency installation output", <<dr.output>>)>>)
        /\ Push(AutoInstallTurns(dr, missingDependency))
        /\ attempt' = AttemptAfterInstall(dr, attempt)
    /\ pc' = "loop"
    /\ UNCHANGED <<hist, successfulCode, successfulTestCases, toolCall, result,
                   missingDependency, llmCalls>>
    /\ SameCalls
    /\ outstanding' = Settled(outstanding, "install")
    /\ UNCHANGED <<conversation, cycleStart>>

Next ==
    \/ Generate
    \/ Finish
    \/ GenerationError
    \/ NoFunctionCall
    \/ UnknownToolCall
    \/ ParseError
    \/ DispatchInstall
    \/ InstallReturn
    \/ DispatchTest
    \/ RunTestReturn
    \/ AutoInstallReturn

\* The conversation and the progress stream are kept; MaxCycles calls of
\* the reasoning service are explored.
Spec == Init /\ [][Next]_vars

\* The control skeleton: the conversation and the progress stream are not
\* kept, so that sessions of any length are explored.
LoopSpec == InitLoop /\ [][Next]_vars

\* Every call of the session returns and the consumer keeps reading the
\* stream: a step that can be taken is taken.
FairLoopSpec == LoopSpec /\ WF_vars(Next)


(***************************************************************************)
(* runPythonCode, statement by statement (lines 10-57).                    *)
(***************************************************************************)
\* a || b on texts: b when a is empty.
OrElse(a, b) == IF a # <<>> THEN a ELSE b

\* stdout.includes("TEST_PASSED")
Includes(text, token) == \E i \in 1..Len(text) : text[i] = token

\* How the python process can end when it runs the program of a file: by
\* itself, killed after 10 s (line 44), or crashed (the shell of exec then
\* reports 128 + the signal).
ProgramOutcomes ==
    { [exit |-> 0, killed |-> FALSE, stdout |-> <<"TEST_PASSED">>, stderr |-> <<>>],
      [exit |-> 1, killed |-> FALSE, stdout |-> <<"TEST_FAILED", "e">>, stderr |-> <<>>],
      [exit |-> 1, killed |-> FALSE, stdout |-> <<>>, stderr |-> <<"Traceback", MNF, Q1, "a", Q1>>],
      [exit |-> 1, killed |-> FALSE, stdout |-> <<"TEST_PASSED">>, stderr |-> <<"Traceback">>],
      [exit |-> 0, killed |-> FALSE, stdout |-> <<>>, stderr |-> <<"warning">>],
      [exit |-> 0, killed |-> TRUE, stdout |-> <<>>, stderr |-> <<>>],
      [exit |-> 139, killed |-> FALSE, stdout |-> <<>>, stderr |-> <<>>] }

\* python <path> when there is no file at the path.
CannotOpen == [exit |-> 2, killed |-> FALSE, stdout |-> <<>>, stderr |-> <<"can't open file">>]

ProcOutcomes(file) == IF file = NoFile THEN {CannotOpen} ELSE ProgramOutcomes

\* error.message of a rejected exec.
ErrorMessage(proc) == <<"Command failed">> \o proc.stderr

\* RunResult deciding by the marker alone, whatever the exit code.
RunResultMarkerOnly(proc) ==
    IF Includes(proc.stdout, "TEST_PASSED")
    THEN [success |-> TRUE, output |-> proc.stdout]
    ELSE [success |-> FALSE, output |-> OrElse(proc.stdout, proc.stderr)]

\* Lines 44-52: the result computed from the ended process.  exec rejects
\* when the exit code is not zero or the process was killed on timeout.
RunResult(proc) ==
    IF proc.exit = 0 /\ ~proc.killed
    THEN IF Includes(proc.stdout, "TEST_PASSED")
         THEN [success |-> TRUE, output |-> proc.stdout]
         ELSE [success |-> FALSE, output |-> OrElse(proc.stdout, proc.stderr)]
    ELSE [success |-> FALSE, output |-> OrElse(proc.stderr, ErrorMessage(proc))]

\* Line 55, in the finally clause: fs.unlink is started and not awaited.
UnlinkAtReturn == "pending"

\* Date.now() advances.
Tick ==
    /\ clock < MaxClock
    /\ clock' = clock + 1
    /\ UNCHANGED <<files, runs, outsideSandbox>>

\* Lines 18-40: the program text and the path are computed.
StartRun(c) ==
    /\ runs[c].pc = "idle"
    /\ runs' = [runs EXCEPT ![c].pc = "write", ![c].path = clock]
    /\ UNCHANGED <<clock, files, outsideSandbox>>

\* Line 42: fs.writeFile resolves.
WriteFile(c) ==
    /\ runs[c].pc = "write"
    /\ files' = [files EXCEPT ![runs[c].path] = [by |-> c, text |-> Assemble(runs[c].params)]]
    /\ runs' = [runs EXCEPT ![c].pc = "exec"]
    /\ UNCHANGED <<clock, outsideSandbox>>

\* Line 42: fs.writeFile rejects; lines 51-55.
WriteFileFails(c) ==
    /\ runs[c].pc = "write"
    /\ runs' = [runs EXCEPT ![c].pc = "returned",
                            ![c].ret = [success |-> FALSE, output |-> <<"EACCES">>],
                            ![c].unlink = UnlinkAtReturn]
    /\ UNCHANGED <<clock, files, outsideSandbox>>

\* Line 44: the python process opens the file at the path.
ExecReads(c) ==
    /\ runs[c].pc = "exec"
    /\ runs' = [runs EXCEPT ![c].pc = "running", ![c].ran = files[runs[c].path]]
    /\ UNCHANGED <<clock, files, outsideSandbox>>

\* Lines 44-55: the process ends (or is killed after 10 s); the result is
\* returned and the finally clause runs.
ExecExits(c) ==
    /\ runs[c].pc = "running"
    /\ \E proc \in ProcOutcomes(runs[c].ran) :
        runs' = [runs EXCEPT ![c].pc = "returned",
                             ![c].proc = proc,
                             ![c].ret = RunResult(proc),
                             ![c].unlink = UnlinkAtReturn]
    /\ UNCHANGED <<clock, files, outsideSandbox>>

\* The unlink started at line 55 completes and removes the file.
Unlink(c) ==
    /\ runs[c].unlink = "pending"
    /\ files' = [files EXCEPT ![runs[c].path] = NoFile]
    /\ runs' = [runs EXCEPT ![c].unlink = "done"]
    /\ UNCHANGED <<clock, outsideSandbox>>

\* The unlink started at line 55 rejects; .catch(() => {}) drops the error.
UnlinkFails(c) ==
    /\ runs[c].unlink = "pending"
    /\ runs' = [runs EXCEPT ![c].unlink = "failed"]
    /\ UNCHANGED <<clock, files, outsideSandbox>>

SandboxNext ==
    \/ Tick
    \/ \E c \in Callers : StartRun(c)
    \/ \E c \in Callers : WriteFile(c)
    \/ \E c \in Callers : WriteFileFails(c)
    \/ \E c \in Callers : ExecReads(c)
    \/ \E c \in Callers : ExecExits(c)
    \/ \E c \in Callers : Unlink(c)
    \/ \E c \in Callers : UnlinkFails(c)

InitRuns ==
    /\ InitSession(FALSE)
    /\ InstallIdle
    /\ TokenizeIdle
    /\ \E ps \in [Callers -> RunParams] : InitSandbox(ps)

\* Two runPythonCode calls with any inputs, interleaved in any way.
SandboxSpec == InitRuns /\ [][SandboxNext]_vars


(***************************************************************************)
(* downloadDependency, statement by statement (lines 59-71).               *)
(***************************************************************************)
\* The white-space tokens of a text.
Whitespace == {" ", "\n"}

\* Texts of at most n tokens over the alphabet.
TextsUpTo(alphabet, n) == UNION {[1..k -> alphabet] : k \in 0..n}

RECURSIVE TrimStart(_)
TrimStart(text) ==
    IF text # <<>> /\ Head(text) \in Whitespace THEN TrimStart(Tail(text)) ELSE text

RECURSIVE TrimEnd(_)
TrimEnd(text) ==
    IF text # <<>> /\ text[Len(text)] \in Whitespace
    THEN TrimEnd(SubSeq(text, 1, Len(text) - 1))
    ELSE text

\* String.prototype.trim
Trim(text) == TrimEnd(TrimStart(text))

\* How the process of python -m pip install <dependency> can end: with
\* exit code 0, with another exit code, killed after 30 s, or crashed.
InstallOutcomes ==
    { [exit |-> x.exit, killed |-> x.killed,
       stdout |-> IF x.exit = 0 /\ ~x.killed THEN <<"Successfully installed">> ELSE <<"Collecting">>,
       stderr |-> e] :
        x \in {[exit |-> 0, killed |-> FALSE], [exit |-> 1, killed |-> FALSE],
               [exit |-> 0, killed |-> TRUE], [exit |-> 139, killed |-> FALSE]},
        e \in TextsUpTo(Whitespace \cup {"WARNING"}, MaxText) }

\* DepResult testing stderr without the trim of line 64.
DepResultUntrimmed(proc) ==
    IF proc.exit = 0 /\ ~proc.killed
    THEN IF proc.stderr # <<>>
         THEN [success |-> FALSE, output |-> proc.stderr]
         ELSE [success |-> TRUE, output |-> proc.stdout]
    ELSE [success |-> FALSE, output |-> OrElse(proc.stderr, ErrorMessage(proc))]

\* Lines 60-70: the result computed from the ended process.  exec rejects
\* when the exit code is not zero or the process was killed on timeout.
DepResult(proc) ==
    IF proc.exit = 0 /\ ~proc.killed
    THEN IF proc.stderr # <<>> /\ Trim(proc.stderr) # <<>>
         THEN [success |-> FALSE, output |-> proc.stderr]
         ELSE [success |-> TRUE, output |-> proc.stdout]
    ELSE [success |-> FALSE, output |-> OrElse(proc.stderr, ErrorMessage(proc))]

\* Line 62: the install process is started.
InstallStart ==
    /\ install.pc = "idle"
    /\ install' = [install EXCEPT !.pc = "running"]
    /\ UNCHANGED outsideInstall

\* Lines 62-70: the process ends (or is killed after 30 s) and the result
\* is returned.
InstallExits ==
    /\ install.pc = "running"
    /\ \E proc \in InstallOutcomes :
        install' = [install EXCEPT !.pc = "returned", !.proc = proc, !.ret = DepResult(proc)]
    /\ UNCHANGED outsideInstall

InstallNext ==
    \/ InstallStart
    \/ InstallExits

InitInstall ==
    /\ InitSession(FALSE)
    /\ SandboxIdle
    /\ TokenizeIdle
    /\ \E dep \in {<<"a">>, <<"b">>, <<Undefined>>} : install = IdleInstall(dep)

\* One downloadDependency call with any dependency and any process outcome.
InstallSpec == InitInstall /\ [][InstallNext]_vars


(***************************************************************************)
(* chunkText (tokenize/route.ts lines 21-35).  A text is a sequence of     *)
(* characters; the encoder is a byte-pair encoder over the UTF-8 bytes of  *)
(* the text, as the one of js-tiktoken is, with one merge rule.            *)
(***************************************************************************)
\* The longest text explored, in characters.
MaxChars == 3

\* The largest maxTokens explored.  The program calls chunkText with 2048
\* only (lines 120-122); the values explored are 1..MaxChunkTokens.
MaxChunkTokens == 3

\* Characters of one byte, one of two bytes, and a lone surrogate, which
\* has no UTF-8 encoding.
Alphabet == {"a", "b", "U+00FC", "U+D800"}

ChunkTexts == TextsUpTo(Alphabet, MaxChars)

\* TextEncoder: the UTF-8 bytes of a character; a lone surrogate is
\* encoded as U+FFFD.
Utf8(char) ==
    CASE char = "a" -> <<"61">>
      [] char = "b" -> <<"62">>
      [] char = "U+00FC" -> <<"c3", "bc">>
      [] OTHER -> <<"ef", "bf", "bd">>

RECURSIVE Flatten(_)
\* The concatenation of a sequence of sequences.
Flatten(seqs) == IF seqs = <<>> THEN <<>> ELSE Head(seqs) \o Flatten(Tail(seqs))

RECURSIVE Merge(_)
\* Byte-pair merging with the one rule (61, 62) -> 6162.
Merge(bytes) ==
    IF Len(bytes) < 2 THEN bytes
    ELSE IF bytes[1] = "61" /\ bytes[2] = "62"
         THEN <<"6162">> \o Merge(SubSeq(bytes, 3, Len(bytes)))
         ELSE <<bytes[1]>> \o Merge(Tail(bytes))

\* Line 23: encoder.encode(text).
Encode(text) == Merge(Flatten([k \in 1..Len(text) |-> Utf8(text[k])]))

\* The bytes of a token.
TokenBytes(token) == IF token = "6162" THEN <<"61", "62">> ELSE <<token>>

RECURSIVE Utf8Decode(_)
\* TextDecoder: the characters of a byte sequence; every maximal part of
\* an ill-formed sequence becomes U+FFFD.  The byte sequences decoded are
\* slices of encoded texts.
Utf8Decode(bytes) ==
    IF bytes = <<>> THEN <<>>
    ELSE LET n == Len(bytes)
             rest(k) == Utf8Decode(SubSeq(bytes, k + 1, n))
         IN  CASE bytes[1] = "61" -> <<"a">> \o rest(1)
               [] bytes[1] = "62" -> <<"b">> \o rest(1)
               [] bytes[1] = "c3" ->
                    IF n >= 2 /\ bytes[2] = "bc"
                    THEN <<"U+00FC">> \o rest(2)
                    ELSE <<"U+FFFD">> \o rest(1)
               [] bytes[1] = "ef" ->
                    IF n >= 3 /\ bytes[2] = "bf" /\ bytes[3] = "bd"
                    THEN <<"U+FFFD">> \o rest(3)
                    ELSE IF n >= 2 /\ bytes[2] = "bf"
                         THEN <<"U+FFFD">> \o rest(2)
                         ELSE <<"U+FFFD">> \o rest(1)
               [] OTHER -> <<"U+FFFD">> \o rest(1)

\* Line 31: encoder.decode(chunkTokens).
Decode(tokens) == Utf8Decode(Flatten([k \in 1..Len(tokens) |-> TokenBytes(tokens[k])]))

ShortEnoughStrict(n, maxTokens) == n < maxTokens

\* Line 26: tokens.length <= maxTokens
ShortEnough(n, maxTokens) == n <= maxTokens

\* Line 30: tokens.slice(from, to), positions counted from 0.
Slice(tokens, from, to) == SubSeq(tokens, from + 1, Min(to, Len(tokens)))

NextStartByOne(i, maxTokens) == i + 1

\* Line 29: i += maxTokens
NextStart(i, maxTokens) == i + maxTokens

\* The calls of chunkText explored.
ChunkCalls ==
    { [pc |-> "called", text |-> text, maxTokens |-> maxTokens, tokens |-> <<>>,
       i |-> 0, windows |-> <<>>, chunks |-> <<>>] :
        text \in ChunkTexts, maxTokens \in 1..MaxChunkTokens }

\* Lines 22-23.
EncodeText ==
    /\ chunk.pc = "called"
    /\ chunk' = [chunk EXCEPT !.pc = "encoded", !.tokens = Encode(chunk.text)]
    /\ UNCHANGED outsideChunk

\* Line 26: the text is returned as the only chunk.
ReturnText ==
    /\ chunk.pc = "encoded"
    /\ ShortEnough(Len(chunk.tokens), chunk.maxTokens)
    /\ chunk' = [chunk EXCEPT !.pc = "returned", !.chunks = <<chunk.text>>]
    /\ UNCHANGED outsideChunk

\* Lines 28-29: chunks = [], i = 0.
EnterLoop ==
    /\ chunk.pc = "encoded"
    /\ ~ShortEnough(Len(chunk.tokens), chunk.maxTokens)
    /\ chunk' = [chunk EXCEPT !.pc = "loop", !.chunks = <<>>, !.i = 0]
    /\ UNCHANGED outsideChunk

\* Lines 29-33: one turn of the loop; windows keeps the values of
\* chunkTokens.
SliceChunk ==
    /\ chunk.pc = "loop"
    /\ chunk.i < Len(chunk.tokens)
    /\ LET chunkTokens == Slice(chunk.tokens, chunk.i, chunk.i + chunk.maxTokens)
       IN  chunk' = [chunk EXCEPT !.windows = Append(@, chunkTokens),
                                  !.chunks = Append(@, Decode(chunkTokens)),
                                  !.i = NextStart(@, chunk.maxTokens)]
    /\ UNCHANGED outsideChunk

\* Lines 29 and 34: the loop is left and chunks returned.
ReturnChunks ==
    /\ chunk.pc = "loop"
    /\ ~(chunk.i < Len(chunk.tokens))
    /\ chunk' = [chunk EXCEPT !.pc = "returned"]
    /\ UNCHANGED outsideChunk

ChunkNext ==
    \/ EncodeText
    \/ ReturnText
    \/ EnterLoop
    \/ SliceChunk
    \/ ReturnChunks

InitChunk ==
    /\ InitSession(FALSE)
    /\ SandboxIdle
    /\ InstallIdle
    /\ IndexIdle
    /\ EmbedIdle
    /\ GetEmbeddingIdle
    /\ CosineIdle
    /\ chunk \in ChunkCalls

\* chunkText applied to every text and every maxTokens explored.
ChunkSpec == InitChunk /\ [][ChunkNext]_vars

(***************************************************************************)
(* fetchEmbedding (tokenize/route.ts lines 40-89).                         *)
(***************************************************************************)
\* Line 43.
maxRetries == 5

\* Line 45: the initial wait time in ms.
InitialWait == 500

\* What one call of fetch (line 49) and the reading of its response can
\* come to: a response that is ok with a body of the expected shape, one of
\* status 429, one of another status that is not ok, a rejection of fetch
\* itself, and an ok response whose body lines 75-77 cannot read.
FetchOutcomes == {"ok", "429", "500", "network", "body"}

\* The error lines 72, 49 and 75-77 throw for an outcome.
ErrorOf(outcome) ==
    CASE outcome = "429" -> "Error fetching embedding: Too Many Requests"
      [] outcome = "500" -> "Error fetching embedding: Internal Server Error"
      [] outcome = "network" -> "fetch failed"
      [] outcome = "body" -> "Cannot read properties of undefined"
      [] OTHER -> ""

RateLimitRetryInclusive(retryCount) == retryCount <= maxRetries

\* Line 62: retryCount < maxRetries
RateLimitRetry(retryCount) == retryCount < maxRetries

CatchRetryNever(retryCount) == FALSE

\* Line 79: retryCount < maxRetries
CatchRetry(retryCount) == retryCount < maxRetries

\* Lines 43-49: fetchEmbedding is called and makes its first call.
FetchStart ==
    /\ fetch.pc = "idle"
    /\ fetch' = [fetch EXCEPT !.pc = "calling", !.retryCount = 0, !.waitTime = InitialWait]
    /\ UNCHANGED outsideEmbed

\* Lines 64 and 81: the timer of waitTime ms is set.
Wait(outcome) ==
    [fetch EXCEPT !.pc = "waiting", !.log = Append(@, outcome),
                  !.waits = Append(@, fetch.waitTime)]

\* Lines 62-64: a response of status 429 while retries are left.
RateLimited ==
    /\ fetch.pc = "calling"
    /\ RateLimitRetry(fetch.retryCount)
    /\ fetch' = Wait("429")
    /\ UNCHANGED outsideEmbed

\* Lines 70-87: an error is thrown inside the try block (a response that is
\* not ok and did not take the branch of line 62, a rejected fetch, an
\* unreadable body) and caught: a wait while retries are left, else the
\* error is thrown to the caller.
Thrown ==
    /\ fetch.pc = "calling"
    /\ \E outcome \in FetchOutcomes \ {"ok"} :
        /\ outcome = "429" => ~RateLimitRetry(fetch.retryCount)
        /\ fetch' = IF CatchRetry(fetch.retryCount)
                    THEN Wait(outcome)
                    ELSE [fetch EXCEPT !.pc = "failed", !.log = Append(@, outcome),
                                       !.error = ErrorOf(outcome)]
    /\ UNCHANGED outsideEmbed

\* Lines 65-67 and 82-83: the timer has fired; the counter goes up, the wait
\* doubles, and the loop makes the next call.
Retry ==
    /\ fetch.pc = "waiting"
    /\ fetch' = [fetch EXCEPT !.pc = "calling", !.retryCount = @ + 1, !.waitTime = @ * 2]
    /\ UNCHANGED outsideEmbed

\* Lines 75-77: the embedding is returned.
Fetched ==
    /\ fetch.pc = "calling"
    /\ fetch' = [fetch EXCEPT !.pc = "returned", !.log = Append(@, "ok")]
    /\ UNCHANGED outsideEmbed

EmbedNext ==
    \/ FetchStart
    \/ RateLimited
    \/ Thrown
    \/ Retry
    \/ Fetched

InitEmbed ==
    /\ InitSession(FALSE)
    /\ SandboxIdle
    /\ InstallIdle
    /\ TokenizeIdle

\* One fetchEmbedding call against a service that answers in any way.
EmbedSpec == InitEmbed /\ [][EmbedNext]_vars

(***************************************************************************)
(* averageEmbeddings and getEmbedding (tokenize/route.ts lines 94-132).    *)
(* The numbers of the program are binary floating-point numbers: every     *)
(* sum and quotient is rounded to the nearest number of Precision          *)
(* significant bits, ties to even.  A number is kept as an integer         *)
(* multiple of the smallest spacing of the format.                         *)
(***************************************************************************)
\* Significant bits of a number (53 in the program).
Precision == 3

\* Line 120 (2048 in the program).
MAX_TOKENS_PER_CHUNK == 2

Abs(x) == IF x < 0 THEN 0 - x ELSE x

RECURSIVE Pow2(_)
Pow2(n) == IF n = 0 THEN 1 ELSE 2 * Pow2(n - 1)

RECURSIVE SpacingFrom(_, _, _)
\* The spacing of the format at the magnitude a / b: the least power of
\* two s, from s on, with a / b < 2^Precision * s.
SpacingFrom(a, b, s) ==
    IF a < Pow2(Precision) * s * b THEN s ELSE SpacingFrom(a, b, 2 * s)

\* a / b (b > 0) rounded to the nearest number of the format, ties to even.
Round(a, b) ==
    LET mag == Abs(a)
        s == SpacingFrom(mag, b, 1)
        d == b * s
        m0 == mag \div d
        r == mag % d
        m == IF 2 * r > d \/ (2 * r = d /\ m0 % 2 = 1) THEN m0 + 1 ELSE m0
    IN  IF a < 0 THEN 0 - m * s ELSE m * s

\* x + y of the program (line 101).
FAdd(x, y) == Round(x + y, 1)

\* x / n of the program (line 104).
FDiv(x, n) == Round(x, n)

\* The components of the embeddings the service returns, and its vectors,
\* all of one length.
Components == {0, 1, 6, 14, -5}

Vectors == {<<x, y>> : x, y \in Components}

RECURSIVE AddAll(_, _, _)
\* Lines 97-103: the array result after the first n embeddings have been added,
\* component by component, to an array of embeddingLength zeros.
AddAll(embeddings, n, embeddingLength) ==
    IF n = 0 THEN [i \in 1..embeddingLength |-> 0]
    ELSE [i \in 1..embeddingLength |->
            FAdd(AddAll(embeddings, n - 1, embeddingLength)[i], embeddings[n][i])]

\* Lines 94-105.
averageEmbeddings(embeddings) ==
    IF Len(embeddings) = 0 THEN <<>>
    ELSE LET embeddingLength == Len(embeddings[1])
             sums == AddAll(embeddings, Len(embeddings), embeddingLength)
         IN  [i \in 1..embeddingLength |-> FDiv(sums[i], Len(embeddings))]

RECURSIVE ChunksFrom(_, _, _)
\* Lines 29-33: the chunks pushed from position i on.
ChunksFrom(tokens, i, maxTokens) ==
    IF i < Len(tokens)
    THEN <<Decode(Slice(tokens, i, i + maxTokens))>>
            \o ChunksFrom(tokens, NextStart(i, maxTokens), maxTokens)
    ELSE <<>>

\* Lines 21-35: what the call of chunkText returns.
chunkText(text, maxTokens) ==
    LET tokens == Encode(text)
    IN  IF ShortEnough(Len(tokens), maxTokens)
        THEN <<text>>
        ELSE ChunksFrom(tokens, 0, maxTokens)

\* The special token, taken as one character of a text.
Sentinel == "<|endoftext|>"

\* Line 117: text.replace(/<\|endoftext\|>/g, '').
StripSentinel(text) == SelectSeq(text, LAMBDA c : c # Sentinel)

\* The character c, n times.
Repeat(c, n) == [k \in 1..n |-> c]

\* The texts getEmbedding is called with: of one, two and three chunks.
EmbedTexts ==
    {Repeat("b", n) : n \in 0..(3 * MAX_TOKENS_PER_CHUNK)}
        \cup {<<"a", Sentinel>>, <<Sentinel, "b", Sentinel, "b", "b">>}

GetEmbeddingCalls ==
    { [pc |-> "called", text |-> text, chunks |-> <<>>, embeddings |-> <<>>,
       done |-> {}, calls |-> <<>>, result |-> <<>>] : text \in EmbedTexts }

\* Lines 117-129: the text is stripped and chunked and fetchEmbedding is
\* called for every chunk (once, lines 126 and 129).
StartFetches ==
    /\ embed.pc = "called"
    /\ LET chunks == chunkText(StripSentinel(embed.text), MAX_TOKENS_PER_CHUNK)
       IN  embed' = [embed EXCEPT !.pc = "fetching", !.chunks = chunks,
                                  !.embeddings = [i \in 1..Len(chunks) |-> <<>>],
                                  !.calls = [i \in 1..Len(chunks) |-> 1]]
    /\ UNCHANGED outsideGetEmbedding

\* fetchEmbedding of chunk i resolves with a vector.
ChunkEmbedded(i) ==
    /\ embed.pc = "fetching"
    /\ i \in 1..Len(embed.chunks)
    /\ i \notin embed.done
    /\ \E v \in Vectors :
        embed' = [embed EXCEPT !.embeddings[i] = v, !.done = @ \cup {i}]
    /\ UNCHANGED outsideGetEmbedding

\* fetchEmbedding of chunk i rejects, and so does getEmbedding.
ChunkFails(i) ==
    /\ embed.pc = "fetching"
    /\ i \in 1..Len(embed.chunks)
    /\ i \notin embed.done
    /\ embed' = [embed EXCEPT !.pc = "failed"]
    /\ UNCHANGED outsideGetEmbedding

\* Lines 125-126: the embedding of the only chunk is returned.
ReturnDirect ==
    /\ embed.pc = "fetching"
    /\ Len(embed.chunks) = 1
    /\ embed.done = {1}
    /\ embed' = [embed EXCEPT !.pc = "returned", !.result = embed.embeddings[1]]
    /\ UNCHANGED outsideGetEmbedding

\* Lines 127-131: the embeddings of all chunks are averaged.
ReturnAverage ==
    /\ embed.pc = "fetching"
    /\ Len(embed.chunks) # 1
    /\ embed.done = 1..Len(embed.chunks)
    /\ embed' = [embed EXCEPT !.pc = "returned",
                              !.result = averageEmbeddings(embed.embeddings)]
    /\ UNCHANGED outsideGetEmbedding

GetEmbeddingNext ==
    \/ StartFetches
    \/ \E i \in 1..3 : ChunkEmbedded(i)
    \/ \E i \in 1..3 : ChunkFails(i)
    \/ ReturnDirect
    \/ ReturnAverage

InitGetEmbedding ==
    /\ InitSession(FALSE)
    /\ SandboxIdle
    /\ InstallIdle
    /\ IndexIdle
    /\ EmbedIdle
    /\ ChunkIdle
    /\ CosineIdle
    /\ embed \in GetEmbeddingCalls

\* getEmbedding applied to every text explored, the service answering each
\* chunk with any vector or an error.
GetEmbeddingSpec == InitGetEmbedding /\ [][GetEmbeddingNext]_vars

(***************************************************************************)
(* The tokenize route: index and query (tokenize/route.ts lines 134-211).  *)
(***************************************************************************)
\* The embedding the service computes for a text: a vector of fixed
\* length (here 2, with integer components).
EmbeddingOf(text) ==
    CASE text = "x" -> <<1, 0>>
      [] text = "xx" -> <<2, 0>>
      [] text = "y" -> <<0, 1>>
      [] text = "xy" -> <<1, 1>>
      [] text = "n" -> <<-1, 0>>
      [] OTHER -> <<0, 0>>

File(path, content) == [filePath |-> path, content |-> content]

\* The file lists of the index requests explored.
FileLists ==
    { <<>>,
      <<File("p1", "x")>>,
      <<File("p3", "xx"), File("p5", "z"), File("p1", "x")>>,
      <<File("p1", "x"), File("p2", "n"), File("p3", "xx"), File("p4", "xy")>> }

\* The query texts explored.
Queries == {"x", "y", "z"}

\* Lines 173-177: the record of a file with its embedding.
Record(file, embedding) ==
    [filePath |-> file.filePath, content |-> file.content, embedding |-> embedding]

\* A position of the array of Promise.all that is not settled yet.
Pending == [filePath |-> "", content |-> "", embedding |-> <<>>]

RECURSIVE SumTo(_, _)
\* f[1] + ... + f[n]
SumTo(f, n) == IF n = 0 THEN 0 ELSE f[n] + SumTo(f, n - 1)

Dot(a, b) == SumTo([i \in 1..Len(a) |-> a[i] * b[i]], Len(a))

ZeroNormOfFirst(normA, normB) == normA = 0

\* Line 146: normA === 0 || normB === 0
ZeroNorm(normA, normB) == normA = 0 \/ normB = 0

\* Lines 137-150: the score dotProduct / (sqrt(normA) * sqrt(normB)) is
\* kept exactly, as the pair of dotProduct and normA * normB; it is 0 when
\* one of the norms is 0.
cosineSimilarity(vecA, vecB) ==
    LET dotProduct == Dot(vecA, vecB)
        normA == Dot(vecA, vecA)
        normB == Dot(vecB, vecB)
    IN  IF ZeroNorm(normA, normB)
        THEN [num |-> 0, den2 |-> 1]
        ELSE [num |-> dotProduct, den2 |-> normA * normB]

\* sign(x) * x * x, which orders like x.
SignedSquare(x) == IF x < 0 THEN 0 - x * x ELSE x * x

\* s < t for two scores num / sqrt(den2).
ScoreLess(s, t) == SignedSquare(s.num) * t.den2 < SignedSquare(t.num) * s.den2

\* Line 195-198: the records with their scores.
Scored(index, queryEmbedding) ==
    [i \in 1..Len(index) |->
        [filePath |-> index[i].filePath, content |-> index[i].content,
         embedding |-> index[i].embedding,
         score |-> cosineSimilarity(queryEmbedding, index[i].embedding)]]

ComesBeforeAscending(b, a) == ScoreLess(b.score, a.score)

\* The comparator of line 201, (a, b) => b.score - a.score, is positive:
\* b goes before a.
ComesBefore(b, a) == ScoreLess(a.score, b.score)

RECURSIVE InsertSorted(_, _)
\* x inserted into the sorted sequence after every entry that does not
\* have to come after it.
InsertSorted(sorted, x) ==
    IF sorted = <<>> THEN <<x>>
    ELSE IF ComesBefore(x, sorted[Len(sorted)])
         THEN Append(InsertSorted(SubSeq(sorted, 1, Len(sorted) - 1), x), sorted[Len(sorted)])
         ELSE Append(sorted, x)

RECURSIVE SortPrefix(_, _)
\* Line 201: Array.prototype.sort, a stable sort, of the first n entries.
SortPrefix(seq, n) ==
    IF n = 0 THEN <<>> ELSE InsertSorted(SortPrefix(seq, n - 1), seq[n])

\* Line 204: slice(0, 3).
TopThree(seq) == SubSeq(seq, 1, Min(3, Len(seq)))

\* Lines 195-204: the results of a query.
QueryResults(index, queryEmbedding) ==
    LET scoredFiles == Scored(index, queryEmbedding)
    IN  TopThree(SortPrefix(scoredFiles, Len(scoredFiles)))

NotIndexedNever(index) == FALSE

\* Line 187: !codeIndex.length
NotIndexed(index) == Len(index) = 0

CollectInCompletionOrder(results, i, rec) ==
    LET first == CHOOSE k \in 1..Len(results) :
                    /\ results[k] = Pending
                    /\ \A j \in 1..(k - 1) : results[j] # Pending
    IN  [results EXCEPT ![first] = rec]

\* Promise.all puts the value of the i-th promise at position i.
Collect(results, i, rec) == [results EXCEPT ![i] = rec]

IndexStoredAppended(old, new) == old \o new

\* IndexStored keeping the old index when the new one is empty.
IndexStoredUnlessEmpty(old, new) == IF new = <<>> THEN old ELSE new

\* Line 170: codeIndex = <the resolved array>.
IndexStored(old, new) == new

NotBuilt == "Embedding index not built yet. Please index the files first."

\* Slot r takes a new request.
Free(r) == reqs[r].pc \in {"idle", "responded"}

\* Lines 165-179: an index request; getEmbedding is started for each file.
IndexStart(r) ==
    /\ Free(r)
    /\ \E fl \in FileLists :
        reqs' = [reqs EXCEPT ![r] =
                    [kind |-> "index", pc |-> "embedding", files |-> fl,
                     results |-> [i \in 1..Len(fl) |-> Pending],
                     query |-> "", calls |-> Len(fl), order |-> <<>>,
                     response |-> NoResponse]]
    /\ UNCHANGED <<codeIndex, everIndexed, outsideIndex>>

\* Lines 171-178: getEmbedding of the i-th file resolves.
EmbedDone(r, i) ==
    /\ reqs[r].kind = "index"
    /\ reqs[r].pc = "embedding"
    /\ i \in 1..Len(reqs[r].files)
    /\ reqs[r].results[i] = Pending
    /\ reqs' = [reqs EXCEPT ![r].results =
                    Collect(@, i, Record(reqs[r].files[i], EmbeddingOf(reqs[r].files[i].content))),
                            ![r].order = Append(@, i)]
    /\ UNCHANGED <<codeIndex, everIndexed, outsideIndex>>

\* EmbedFails storing the records collected before the rejection.
EmbedFailsStoringPartial(r, i) ==
    /\ reqs[r].kind = "index"
    /\ reqs[r].pc = "embedding"
    /\ i \in 1..Len(reqs[r].files)
    /\ reqs[r].results[i] = Pending
    /\ reqs' = [reqs EXCEPT ![r].pc = "responded",
                            ![r].response = Response(500, "Error fetching embedding", 0, <<>>)]
    /\ codeIndex' = SelectSeq(reqs[r].results, LAMBDA rec : rec # Pending)
    /\ UNCHANGED <<everIndexed, outsideIndex>>

\* Line 172 rejects for the i-th file: Promise.all rejects and the catch
\* clause of lines 208-210 answers.
EmbedFails(r, i) ==
    /\ reqs[r].kind = "index"
    /\ reqs[r].pc = "embedding"
    /\ i \in 1..Len(reqs[r].files)
    /\ reqs[r].results[i] = Pending
    /\ reqs' = [reqs EXCEPT ![r].pc = "responded",
                            ![r].response = Response(500, "Error fetching embedding", 0, <<>>)]
    /\ UNCHANGED <<codeIndex, everIndexed, outsideIndex>>

\* Lines 170-182: every promise has resolved; the array is assigned to
\* codeIndex and the count is reported.
IndexCommit(r) ==
    /\ reqs[r].kind = "index"
    /\ reqs[r].pc = "embedding"
    /\ \A i \in 1..Len(reqs[r].files) : reqs[r].results[i] # Pending
    /\ codeIndex' = IndexStored(codeIndex, reqs[r].results)
    /\ everIndexed' = TRUE
    /\ reqs' = [reqs EXCEPT ![r].pc = "responded",
                            ![r].response = Response(200, "", Len(codeIndex'), <<>>)]
    /\ UNCHANGED outsideIndex

\* Lines 183-192: a query request; without an index it is refused, else
\* getEmbedding(query) is started.
QueryStart(r) ==
    /\ Free(r)
    /\ \E query \in Queries :
        reqs' = [reqs EXCEPT ![r] =
                    IF NotIndexed(codeIndex)
                    THEN [kind |-> "query", pc |-> "responded", files |-> <<>>,
                          results |-> <<>>, query |-> query, calls |-> 0, order |-> <<>>,
                          response |-> Response(400, NotBuilt, 0, <<>>)]
                    ELSE [kind |-> "query", pc |-> "embedding", files |-> <<>>,
                          results |-> <<>>, query |-> query, calls |-> 1, order |-> <<>>,
                          response |-> NoResponse]]
    /\ UNCHANGED <<codeIndex, everIndexed, outsideIndex>>

\* QueryDone testing the index again when the query embedding resolves.
QueryDoneRechecking(r) ==
    /\ reqs[r].kind = "query"
    /\ reqs[r].pc = "embedding"
    /\ reqs' = [reqs EXCEPT ![r].pc = "responded",
                            ![r].response =
                                IF NotIndexed(codeIndex)
                                THEN Response(400, NotBuilt, 0, <<>>)
                                ELSE Response(200, "", 0,
                                              QueryResults(codeIndex, EmbeddingOf(reqs[r].query)))]
    /\ UNCHANGED <<codeIndex, everIndexed, outsideIndex>>

\* Lines 192-204: getEmbedding(query) resolves; the index is scanned.
QueryDone(r) ==
    /\ reqs[r].kind = "query"
    /\ reqs[r].pc = "embedding"
    /\ reqs' = [reqs EXCEPT ![r].pc = "responded",
                            ![r].response =
                                Response(200, "", 0,
                                         QueryResults(codeIndex, EmbeddingOf(reqs[r].query)))]
    /\ UNCHANGED <<codeIndex, everIndexed, outsideIndex>>

\* Line 192 rejects; lines 208-210.
QueryFails(r) ==
    /\ reqs[r].kind = "query"
    /\ reqs[r].pc = "embedding"
    /\ reqs' = [reqs EXCEPT ![r].pc = "responded",
                            ![r].response = Response(500, "Error fetching embedding", 0, <<>>)]
    /\ UNCHANGED <<codeIndex, everIndexed, outsideIndex>>

\* The errors of a request that is refused for its shape (lines 166-168,
\* 184-186, 205-207).
ShapeErrors ==
    { "Files array is required for indexing.",
      "A query string is required for searching.",
      "Invalid action. Use 'index' or 'query'." }

\* Lines 166-168, 184-186 and 205-207: files is not an array, query is not a
\* string, or the action is neither index nor query.
Rejected(r) ==
    /\ Free(r)
    /\ \E error \in ShapeErrors :
        reqs' = [reqs EXCEPT ![r] =
                    [kind |-> "invalid", pc |-> "responded", files |-> <<>>,
                     results |-> <<>>, query |-> "", calls |-> 0, order |-> <<>>,
                     response |-> Response(400, error, 0, <<>>)]]
    /\ UNCHANGED <<codeIndex, everIndexed, outsideIndex>>

IndexNext ==
    \/ \E r \in Reqs : IndexStart(r)
    \/ \E r \in Reqs, i \in 1..4 : EmbedDone(r, i)
    \/ \E r \in Reqs, i \in 1..4 : EmbedFails(r, i)
    \/ \E r \in Reqs : IndexCommit(r)
    \/ \E r \in Reqs : QueryStart(r)
    \/ \E r \in Reqs : QueryDone(r)
    \/ \E r \in Reqs : QueryFails(r)
    \/ \E r \in Reqs : Rejected(r)

InitIndex ==
    /\ InitSession(FALSE)
    /\ SandboxIdle
    /\ InstallIdle
    /\ TokenizeIdle

\* Index and query requests to the tokenize route, overlapping in any way.
IndexSpec == InitIndex /\ [][IndexNext]_vars


(***************************************************************************)
(* cosineSimilarity applied to vectors (tokenize/route.ts lines 137-150).  *)
(***************************************************************************)
\* The longest vector explored.
MaxDim == 2

\* The components and the vectors cosineSimilarity is applied to; the two
\* vectors of a call have one length, as the embeddings of one service have.
CosineComponents == {-1, 0, 1, 2}

CosineCalls ==
    { [pc |-> "called", vecA |-> a, vecB |-> b, i |-> 0, dotProduct |-> 0,
       normA |-> 0, normB |-> 0, result |-> [num |-> 0, den2 |-> 1]] :
        a, b \in UNION {[1..n -> CosineComponents] : n \in 0..MaxDim} }

\* Lines 138-145: the locals after the loop.
AfterLoop ==
    [cos EXCEPT !.i = Len(cos.vecA),
                !.dotProduct = Dot(cos.vecA, cos.vecB),
                !.normA = Dot(cos.vecA, cos.vecA),
                !.normB = Dot(cos.vecB, cos.vecB)]

\* Lines 146-148: return 0.
ReturnZero ==
    /\ cos.pc = "called"
    /\ ZeroNorm(AfterLoop.normA, AfterLoop.normB)
    /\ cos' = [AfterLoop EXCEPT !.pc = "returned",
                                !.result = cosineSimilarity(cos.vecA, cos.vecB)]
    /\ UNCHANGED outsideCosine

\* Line 149: return the quotient.
ReturnQuotient ==
    /\ cos.pc = "called"
    /\ ~ZeroNorm(AfterLoop.normA, AfterLoop.normB)
    /\ cos' = [AfterLoop EXCEPT !.pc = "returned",
                                !.result = cosineSimilarity(cos.vecA, cos.vecB)]
    /\ UNCHANGED outsideCosine

CosineNext ==
    \/ ReturnZero
    \/ ReturnQuotient

InitCosine ==
    /\ InitSession(FALSE)
    /\ SandboxIdle
    /\ InstallIdle
    /\ IndexIdle
    /\ EmbedIdle
    /\ ChunkIdle
    /\ GetEmbeddingIdle
    /\ cos \in CosineCalls
    /\ Len(cos.vecA) = Len(cos.vecB)

\* cosineSimilarity applied to every pair of vectors of one length explored.
CosineSpec == InitCosine /\ [][CosineNext]_vars

(***************************************************************************)
(* Properties.                                                             *)
(***************************************************************************)
\* The text yielded last.
LastEvent == events[Len(events)]

Terminated == pc = "done"

EndedInSuccess == Terminated /\ LastEvent.kind = "Final working fix"

EndedInFailure == Terminated /\ LastEvent.kind = "Failed to generate a working fix"

\* The parsed payload of the action request of the current cycle.
RequestParams == toolCall.arguments.value

\* C1: every repair session terminates: whatever the reasoning service and
\* the sandbox answer, streamFixProcess eventually leaves its loop and
\* yields its terminal text, also when installs keep succeeding.
C1_SessionTerminates == <>Terminated

\* C2: the attempt counter stays within 0..maxAttempts in every reachable
\* state and no step decreases it.
C2_AttemptBounded ==
    /\ [](attempt \in 0..maxAttempts)
    /\ [][attempt' >= attempt]_vars

\* C2 witness: a session that used up its budget.
C2_Witness == Terminated /\ attempt = maxAttempts

\* C3: once a test run has reported success, the session ends in the
\* terminal Success text carrying the code and the test cases of that
\* request, whatever the payload (the empty code text included).
C3_SuccessCarriesRequest ==
    (Terminated /\ testPassed) =>
        /\ LastEvent.kind = "Final working fix"
        /\ LastEvent.about = <<RequestParams.code, RequestParams.testCases>>

\* C4: the terminal Failure text is yielded only with the attempt counter
\* at maxAttempts and no successful test run in the session.
C4_FailureOnlyWhenExhausted ==
    EndedInFailure => (attempt = maxAttempts /\ ~testPassed)

\* C5: a first cycle with a valid execute-and-test action whose run
\* succeeds ends the session in Success after one reasoning-service call
\* and one runPythonCode call, with the attempt counter at 0.
C5_FirstCycleSuccess ==
    (Terminated /\ testPassed /\ llmCalls = 1) =>
        (EndedInSuccess /\ runTestCalls = 1 /\ attempt = 0)

\* C6: while every cycle so far was a test run that failed without a
\* missing-module diagnostic, the attempt counter equals the number of
\* runs; such a session stops after 5 reasoning-service calls and 5 runs
\* and ends in Failure.
C6_PlainFailuresExhaust ==
    (pc \in {"loop", "done"} /\ plainFails = llmCalls) =>
        /\ attempt = plainFails
        /\ runTestCalls = plainFails
        /\ installCalls = 0
        /\ plainFails <= maxAttempts
        /\ (plainFails = maxAttempts => ~LoopGuard)
        /\ Terminated => (EndedInFailure /\ attempt = 5 /\ llmCalls = 5 /\ runTestCalls = 5)

\* C6 witness: five plain failures in a row, then the terminal text.
C6_Witness == Terminated /\ plainFails = 5 /\ llmCalls = 5

\* The retry prompt of line 240 naming dep.
RetryPrompt(dep) == UserTurn("installed successfully. Please retry", <<dep>>)

\* C7: a failed run whose output names a missing module d starts the
\* install of d with no reasoning-service call in between and no change of
\* the attempt counter; when that install succeeds the loop is back at its
\* head with the counter still unchanged and exactly one retry prompt
\* naming d appended.
C7_AutoRecovery ==
    [][ /\ (pc = "test" /\ ~result'.success /\ MissingDepMatch(result'.output) # NoMatch) =>
            /\ pc' = "autoinstall"
            /\ attempt' = attempt
            /\ llmCalls' = llmCalls
            /\ chatMessages' = chatMessages \o <<ToolTurn(<<result'>>, toolCall.id)>>
        /\ (pc = "autoinstall" /\ depResult'.success) =>
            /\ pc' = "loop"
            /\ attempt' = attempt
            /\ llmCalls' = llmCalls
            /\ chatMessages' = Append(chatMessages, RetryPrompt(MissingDepMatch(result.output)))
      ]_vars

\* C7 witness: back at the loop head after the install of module b, named
\* by a failed run, succeeded.
C7_Witness ==
    /\ pc = "loop"
    /\ attempt = 0
    /\ depResult.success
    /\ LastEvent.kind = "Dependency installation output"
    /\ chatMessages[Len(chatMessages)] = RetryPrompt(<<"b">>)

\* The step yields a text of the kind k last.
Yields(k) == events' # events /\ events'[Len(events')].kind = k

\* A downloadDependency call returns with a failure.
InstallFails == pc \in {"install", "autoinstall"} /\ pc' = "loop" /\ ~depResult'.success

\* The five causes of an increment that the data model lists.
FiveCauses ==
    \/ Yields("Error parsing")
    \/ Yields("Test cases failed")
    \/ InstallFails
    \/ Yields("Unknown tool call received")
    \/ Yields("No function call received")

\* C8 as claimed: the attempt counter changes only by one of the five
\* causes.
C8_OnlyFiveCauses == [][attempt' # attempt => FiveCauses]_vars

\* C8 as amended: the attempt counter changes only by one of the five
\* causes or by an error caught by the catch clause of the loop body (the
\* reasoning-service call or the dispatch code threw), and then by one.
C8_OnlySixCauses ==
    [][attempt' # attempt =>
        /\ attempt' = attempt + 1
        /\ FiveCauses \/ (pc = "llm" /\ Yields("Error during generation"))]_vars

\* C8 witness: an error of the reasoning-service call has been counted.
C8_Witness ==
    /\ pc = "loop"
    /\ attempt = 1
    /\ llmCalls = 1
    /\ LastEvent = Event("Error during generation", <<"create">>)

\* C9: a downloadDependency call that succeeds leaves the attempt counter
\* unchanged and one that fails increments it by one, on the requested
\* path and on the automatic path alike.
C9_InstallAsymmetry ==
    [][(pc \in {"install", "autoinstall"} /\ pc' # pc) =>
        /\ depResult' \in DepResults
        /\ attempt' = IF depResult'.success THEN attempt ELSE attempt + 1]_vars

\* C9 witness: a failed automatic install has been counted after a
\* successful requested install was not.
C9_Witness ==
    /\ pc = "loop"
    /\ attempt = 1
    /\ llmCalls = 2
    /\ installCalls = 2
    /\ ~depResult.success
    /\ LastEvent.kind = "Dependency installation output"

\* C10: once runPythonCode has returned, the temporary file of the run no
\* longer exists.
C10_TempFileRemoved ==
    \A c \in Callers : runs[c].pc = "returned" => files[runs[c].path] = NoFile


\* A runPythonCode call that has run its process and returned.
Ran(c) == runs[c].pc = "returned" /\ runs[c].proc # NoProc

\* C11 as claimed: runPythonCode reports success exactly when the marker
\* TEST_PASSED is in the captured output of the run, whatever the exit code.
C11_SuccessIffMarker ==
    \A c \in Callers :
        Ran(c) => (runs[c].ret.success <=>
                   Includes(runs[c].proc.stdout \o runs[c].proc.stderr, "TEST_PASSED"))

\* C11 as amended: runPythonCode reports success exactly when the process
\* exits with code 0 within the timeout and the marker is in its stdout;
\* a run that prints the marker and exits non-zero is a failure, and so is
\* a run that exits zero without the marker.
C11_SuccessIffMarkerAndExitZero ==
    \A c \in Callers :
        Ran(c) =>
            /\ runs[c].ret.success <=>
                 (/\ runs[c].proc.exit = 0
                  /\ ~runs[c].proc.killed
                  /\ \E i \in DOMAIN runs[c].proc.stdout : runs[c].proc.stdout[i] = "TEST_PASSED")
            /\ runs[c].ret.success => runs[c].ret.output = runs[c].proc.stdout

\* C11 witness: a run that printed the marker, exited with code 1 and was
\* reported as a failure.
C11_Witness ==
    \E c \in Callers :
        /\ Ran(c)
        /\ runs[c].proc.exit = 1
        /\ Includes(runs[c].proc.stdout, "TEST_PASSED")
        /\ ~runs[c].ret.success

\* Every token of the text is white space (the empty text included).
AllWhitespace(text) == \A i \in DOMAIN text : text[i] \in Whitespace

\* C12: downloadDependency returns success exactly when the process ends
\* within 30 s with exit code 0 and its stderr is empty or white space
\* only; stderr with anything else in it gives a failed result whose output
\* is that stderr, also with exit code 0.
C12_InstallSuccess ==
    install.pc = "returned" =>
        /\ install.ret.success <=>
             (/\ install.proc.exit = 0
              /\ ~install.proc.killed
              /\ AllWhitespace(install.proc.stderr))
        /\ ~AllWhitespace(install.proc.stderr) =>
             (~install.ret.success /\ install.ret.output = install.proc.stderr)
        /\ install.ret.success => install.ret.output = install.proc.stdout

\* C12 witness: exit code 0 with a warning on stderr, reported as failure.
C12_Witness ==
    /\ install.pc = "returned"
    /\ install.proc.exit = 0
    /\ ~install.proc.killed
    /\ install.proc.stderr = <<" ", "WARNING">>
    /\ install.ret = [success |-> FALSE, output |-> <<" ", "WARNING">>]

\* The records an index call over the files fl computes.
RecordsOf(fl) == [i \in 1..Len(fl) |-> Record(fl[i], EmbeddingOf(fl[i].content))]

\* C13: at every point, whatever way index and query requests overlap, the
\* stored index is empty or is, record for record and in order, what one
\* index call computes for its files; and every change of the stored index
\* installs the whole result of one index call that is in progress, so
\* records of two calls are never mixed.
C13_IndexOfOneCall ==
    /\ [](codeIndex = <<>> \/ \E fl \in FileLists : codeIndex = RecordsOf(fl))
    /\ [][codeIndex' # codeIndex =>
            \E r \in Reqs : /\ reqs[r].kind = "index"
                            /\ reqs[r].pc = "embedding"
                            /\ codeIndex' = RecordsOf(reqs[r].files)]_vars

\* An index is stored while another index call, over other files, has
\* computed some of its records and not yet all of them.
C13_Witness ==
    /\ codeIndex # <<>>
    /\ \E r \in Reqs :
        /\ reqs[r].kind = "index"
        /\ reqs[r].pc = "embedding"
        /\ RecordsOf(reqs[r].files) # codeIndex
        /\ \E i, j \in 1..Len(reqs[r].files) :
            reqs[r].results[i] # Pending /\ reqs[r].results[j] = Pending

\* The step by which slot r takes a query request.
QueryIssued(r) ==
    /\ Free(r)
    /\ reqs'[r].kind = "query"
    /\ reqs'[r].pc # "idle"
    /\ reqs'[r] # reqs[r] \/ reqs[r].pc = "responded"

\* C14: a query (a request of action query with a query string) issued
\* before any index call has succeeded is answered at
\* once with the not-indexed error (status 400), with no results and without
\* a call to the embedding service.
C14_QueryBeforeIndex ==
    [][\A r \in Reqs :
        (QueryIssued(r) /\ ~everIndexed) =>
            /\ reqs'[r].pc = "responded"
            /\ reqs'[r].response.status = 400
            /\ reqs'[r].response.error = NotBuilt
            /\ reqs'[r].response.results = <<>>
            /\ reqs'[r].calls = 0]_vars

\* A query was refused while no index call had succeeded and an index call
\* was in progress with some of its records computed.
C14_Witness ==
    /\ ~everIndexed
    /\ \E r, q \in Reqs :
        /\ reqs[r].kind = "query"
        /\ reqs[r].response.status = 400
        /\ reqs[q].kind = "index"
        /\ reqs[q].pc = "embedding"
        /\ reqs[q].order # <<>>

\* The entries res are a ranking of the records of index for the query
\* embedding qe: min(3, n) entries, each a record of the index with its
\* score, at the positions pos of the index.
Ranked(index, qe, res) ==
    /\ Len(res) = Min(3, Len(index))
    /\ \E pos \in [1..Len(res) -> 1..Len(index)] :
        /\ \A k, l \in 1..Len(res) : k # l => pos[k] # pos[l]
        /\ \A k \in 1..Len(res) :
            /\ res[k].filePath = index[pos[k]].filePath
            /\ res[k].content = index[pos[k]].content
            /\ res[k].embedding = index[pos[k]].embedding
            /\ res[k].score = cosineSimilarity(qe, index[pos[k]].embedding)
        /\ \A k, l \in 1..Len(res) :
            k < l => /\ ~ScoreLess(res[k].score, res[l].score)
                     /\ ~ScoreLess(res[l].score, res[k].score) => pos[k] < pos[l]
    /\ \A i \in 1..Len(index) :
        ~ScoreLess(res[1].score, cosineSimilarity(qe, index[i].embedding))

\* C15: a successful query returns min(3, number of indexed records)
\* entries, each an indexed record with its score, by non-increasing score,
\* entries of equal score in their index order, the highest score first.
C15_TopThree ==
    [][\A r \in Reqs :
        (/\ reqs[r].kind = "query"
         /\ reqs[r].pc = "embedding"
         /\ reqs'[r].response.status = 200) =>
            Ranked(codeIndex, EmbeddingOf(reqs[r].query), reqs'[r].response.results)]_vars

\* A query over four records returned three entries, the first two of equal
\* score and the third of a lower score.
C15_Witness ==
    /\ Len(codeIndex) = 4
    /\ \E r \in Reqs :
        /\ reqs[r].kind = "query"
        /\ reqs[r].response.status = 200
        /\ Len(reqs[r].response.results) = 3
        /\ LET res == reqs[r].response.results
           IN  /\ ~ScoreLess(res[1].score, res[2].score)
               /\ ~ScoreLess(res[2].score, res[1].score)
               /\ ScoreLess(res[3].score, res[2].score)

\* C16: an index call over files d1..dn that succeeds stores n records,
\* record i with the path and content of di and the embedding computed for
\* di, in whatever order the n computations complete, and reports n.
C16_PositionalCollect ==
    [][\A r \in Reqs :
        (/\ reqs[r].kind = "index"
         /\ reqs[r].pc = "embedding"
         /\ reqs'[r].response.status = 200) =>
            /\ Len(codeIndex') = Len(reqs[r].files)
            /\ \A i \in 1..Len(reqs[r].files) :
                /\ codeIndex'[i].filePath = reqs[r].files[i].filePath
                /\ codeIndex'[i].content = reqs[r].files[i].content
                /\ codeIndex'[i].embedding = EmbeddingOf(reqs[r].files[i].content)
            /\ reqs'[r].response.fileCount = Len(reqs[r].files)]_vars

\* An index call over four files succeeded whose computations completed in
\* the reverse of the input order.
C16_Witness ==
    \E r \in Reqs :
        /\ reqs[r].kind = "index"
        /\ reqs[r].response.status = 200
        /\ reqs[r].order = <<4, 3, 2, 1>>
        /\ codeIndex = RecordsOf(reqs[r].files)

\* The calls of fetch made so far by the fetchEmbedding call.
FetchCalls == Len(fetch.log) + (IF fetch.pc = "calling" THEN 1 ELSE 0)

\* Every call so far was answered with status 429.
OnlyRateLimits == \A k \in 1..Len(fetch.log) : fetch.log[k] = "429"

\* C17: while the service answers every call with the rate-limit status,
\* fetchEmbedding makes at most 5 retries, waits 500, 1000, 2000, 4000 and
\* 8000 ms before retries 1 to 5, fails after the sixth call, and never
\* makes a seventh.
C17_RateLimitSchedule ==
    OnlyRateLimits =>
        /\ FetchCalls <= 6
        /\ Len(fetch.waits) <= 5
        /\ \A k \in 1..Len(fetch.waits) : fetch.waits[k] = <<500, 1000, 2000, 4000, 8000>>[k]
        /\ Len(fetch.log) = 6 => fetch.pc = "failed"
        /\ fetch.pc = "failed" => Len(fetch.log) = 6
        /\ fetch.pc = "calling" => Len(fetch.waits) = Len(fetch.log)

\* Six calls were answered with status 429 and the call has failed.
C17_Witness ==
    /\ OnlyRateLimits
    /\ fetch.pc = "failed"
    /\ fetch.waits = <<500, 1000, 2000, 4000, 8000>>

C19_ShortTextUnchanged ==
    (chunk.pc = "returned" /\ Len(chunk.tokens) <= chunk.maxTokens) =>
        /\ Len(chunk.chunks) = 1
        /\ chunk.chunks[1] = chunk.text

\* A text of exactly maxTokens tokens was returned as it is, a text that
\* decoding its tokens would not give back.
C19_Witness ==
    /\ chunk.pc = "returned"
    /\ Len(chunk.tokens) = chunk.maxTokens
    /\ chunk.chunks = <<chunk.text>>
    /\ Decode(chunk.tokens) # chunk.text

\* C20: for every text of n > maxTokens tokens, chunkText returns
\* ceil(n / maxTokens) chunks, which are the decodings of contiguous windows
\* of the tokens: every window but the last has maxTokens tokens, the last
\* has between 1 and maxTokens, and the windows in order make up the tokens.
C20_TokenWindows ==
    (chunk.pc = "returned" /\ Len(chunk.tokens) > chunk.maxTokens) =>
        LET n == Len(chunk.tokens)
            k == Len(chunk.chunks)
        IN  /\ k * chunk.maxTokens >= n
            /\ (k - 1) * chunk.maxTokens < n
            /\ Len(chunk.windows) = k
            /\ \A j \in 1..k : chunk.chunks[j] = Decode(chunk.windows[j])
            /\ \A j \in 1..(k - 1) : Len(chunk.windows[j]) = chunk.maxTokens
            /\ Len(chunk.windows[k]) \in 1..chunk.maxTokens
            /\ Flatten(chunk.windows) = chunk.tokens

\* A text was cut into three windows, the last one shorter, one of them
\* cutting a character in two.
C20_Witness ==
    /\ chunk.pc = "returned"
    /\ Len(chunk.tokens) > chunk.maxTokens
    /\ Len(chunk.chunks) = 3
    /\ Len(chunk.windows[3]) < chunk.maxTokens
    /\ Flatten(chunk.chunks) # chunk.text

RECURSIVE SumOf(_, _, _)
\* The exact sum of f(embeddings[j][i]) over the first n embeddings.
SumOf(embeddings, i, n) ==
    IF n = 0 THEN 0 ELSE embeddings[n][i] + SumOf(embeddings, i, n - 1)

RECURSIVE SumOfAbs(_, _, _)
SumOfAbs(embeddings, i, n) ==
    IF n = 0 THEN 0 ELSE Abs(embeddings[n][i]) + SumOfAbs(embeddings, i, n - 1)

\* getEmbedding has called fetchEmbedding exactly once for every chunk.
OneCallPerChunk ==
    /\ Len(embed.calls) = Len(embed.chunks)
    /\ \A i \in 1..Len(embed.chunks) : embed.calls[i] = 1

\* The result is the unweighted mean of the k embeddings, component by
\* component, to within the rounding of the number format at the magnitude
\* of the summands.
MeanWithinRounding ==
    LET k == Len(embed.embeddings)
    IN  \A i \in 1..Len(embed.result) :
            Abs(k * embed.result[i] - SumOf(embed.embeddings, i, k))
                < k * SpacingFrom(SumOfAbs(embed.embeddings, i, k), 1, 1)

\* The embeddings of the chunks are copies of one vector.
AllCopies == \A j \in 1..Len(embed.embeddings) : embed.embeddings[j] = embed.embeddings[1]

\* The mean of copies of one vector is that vector.
CopiesUnchanged == AllCopies => embed.result = embed.embeddings[1]

\* C21: getEmbedding makes exactly one embedding call per chunk; with one
\* chunk it returns that chunk's embedding unchanged, with k > 1 chunks the
\* unweighted mean of the k embeddings, component by component; the result
\* has the length of the chunk embeddings; and the mean of copies of one
\* vector is that vector.
C21_EmbeddingOfChunks ==
    embed.pc = "returned" =>
        /\ OneCallPerChunk
        /\ Len(embed.chunks) = 1 => embed.result = embed.embeddings[1]
        /\ Len(embed.chunks) > 1 => MeanWithinRounding
        /\ Len(embed.result) = Len(embed.embeddings[1])
        /\ CopiesUnchanged

\* Every component of the vector is 0.
ZeroMagnitude(vec) == \A i \in 1..Len(vec) : vec[i] = 0

\* C22: cosineSimilarity returns 0, a defined number, whenever one of its
\* arguments has zero magnitude, and for vectors of one length it returns
\* the same with its arguments exchanged.
C22_ZeroAndSymmetric ==
    cos.pc = "returned" =>
        /\ (ZeroMagnitude(cos.vecA) \/ ZeroMagnitude(cos.vecB)) =>
                /\ cos.result.den2 # 0
                /\ cos.result.num = 0
        /\ cos.result = cosineSimilarity(cos.vecB, cos.vecA)

\* cosineSimilarity has returned for a vector that is not zero and a vector
\* of zero magnitude, both of two components.
C22_Witness ==
    /\ cos.pc = "returned"
    /\ Len(cos.vecA) = 2
    /\ ~ZeroMagnitude(cos.vecA)
    /\ ZeroMagnitude(cos.vecB)
    /\ cos.result = [num |-> 0, den2 |-> 1]

\* The process of call c runs the program text that c itself wrote.
ExecutesOwnFile(c) == runs[c].pc = "running" => runs[c].ran.by = c

\* The file at path p backs call d: d has written it and its process has
\* not ended.
Backs(p, d) ==
    /\ runs[d].path = p
    /\ runs[d].pc \in {"exec", "running"}
    /\ files[p].by = d

\* C23: two runPythonCode calls of different sessions do not interfere,
\* whatever their interleaving and timing: the process of a call runs the
\* file that call wrote, and no step of a call overwrites or deletes the file
\* that backs the other call.
C23_NoInterference ==
    /\ [](\A c \in Callers : ExecutesOwnFile(c))
    /\ [][\A c, d \in Callers, p \in Paths :
            (c # d /\ runs'[c] # runs[c] /\ Backs(p, d)) => files'[p] = files[p]]_vars

EnvFailure(proc) == proc.killed \/ proc.exit = 139

\* What runPythonCode and downloadDependency return for such a process.
EnvRunResults == {RunResult(proc) : proc \in {o \in ProgramOutcomes : EnvFailure(o)}}

EnvDepResults == {DepResult(proc) : proc \in {o \in InstallOutcomes : EnvFailure(o)}}

LastTurn(messages) == messages[Len(messages)]

\* C25: a timeout or a crash of the process makes runPythonCode and
\* downloadDependency return a result with success = false, and the
\* session handles such a result as it handles any failed run or failed
\* install: a failed run without a missing module yields
\* 'Test cases failed', appends the failure feedback turn and increments the
\* attempt counter by one; a failed install appends its failure turn and
\* increments the counter by one; the loop goes on.
C25_EnvFailureIsFailure ==
    /\ [](/\ \A r \in EnvRunResults : ~r.success
          /\ \A dr \in EnvDepResults : ~dr.success)
    /\ [][(pc = "test" /\ result' \in EnvRunResults) =>
            /\ successfulCode' = successfulCode
            /\ IF MissingDepMatch(result'.output) # NoMatch
               THEN pc' = "autoinstall" /\ attempt' = attempt
               ELSE /\ pc' = "loop"
                    /\ attempt' = attempt + 1
                    /\ Yields("Test cases failed")
                    /\ Len(chatMessages') > Len(chatMessages)
                    /\ LastTurn(chatMessages').kind = "The tests failed with the error"
                    /\ LastTurn(chatMessages').about[1] = result'.output]_vars
    /\ [][(pc \in {"install", "autoinstall"} /\ depResult' \in EnvDepResults) =>
            /\ pc' = "loop"
            /\ attempt' = attempt + 1
            /\ Len(chatMessages') > Len(chatMessages)
            /\ LastTurn(chatMessages').role = "user"
            /\ LastTurn(chatMessages').kind
                 = (IF pc = "install" THEN "Failed to install dependency"
                    ELSE "Failed to install dependency, check")]_vars

\* A run that was killed or crashed has been handled as a failed run, and
\* then an install that was killed or crashed as a failed install.
C25_Witness ==
    /\ result \in EnvRunResults
    /\ depResult \in EnvDepResults
    /\ attempt = 2
    /\ pc = "loop"
    /\ LastTurn(chatMessages).kind \in {"Failed to install dependency",
                                        "Failed to install dependency, check"}

\* C26: in every state of the conversation, each tool-role turn comes after
\* an assistant turn that carries the action request the tool turn refers to.
C26_ToolTurnAfterRequest ==
    \A i \in 1..Len(chatMessages) :
        chatMessages[i].role = "tool" =>
            \E j \in 1..(i - 1) :
                /\ chatMessages[j].role = "assistant"
                /\ chatMessages[j].tool_call_id = chatMessages[i].tool_call_id

\* The step ends a cycle in which the reasoning service returned an action
\* request (the call of line 90 did not reject).
CycleEndsWithRequest ==
    /\ pc \in {"llm", "test", "install", "autoinstall"}
    /\ pc' \in {"loop", "final"}
    /\ toolCall' # NoToolCall
    /\ ~(pc = "llm" /\ Yields("Error during generation")
                    /\ events'[Len(events')].about = <<"create">>)

\* The turns appended to the conversation since the last call of the
\* reasoning service, as they are after the step.
TurnsOfCycle == SubSeq(chatMessages', cycleStart + 1, Len(chatMessages'))

\* C27: every action request the reasoning service returns, valid,
\* unparsable or of an unrecognized name, has exactly one result turn
\* referring to it appended to the conversation when its cycle ends, before
\* the next call of the reasoning service.
C27_OneResultTurnPerRequest ==
    [][CycleEndsWithRequest =>
        Cardinality({i \in 1..Len(TurnsOfCycle) :
                        /\ TurnsOfCycle[i].role = "tool"
                        /\ TurnsOfCycle[i].tool_call_id = toolCall'.id}) = 1]_vars

\* C28: each call of the reasoning service is sent the whole conversation
\* accumulated so far, every turn in order, the tool-result turns of earlier
\* cycles and the assistant turns they answer included.
C28_FullConversationSent ==
    pc = "llm" =>
        /\ conversation = chatMessages
        /\ \A i \in 1..Len(chatMessages) :
            chatMessages[i].role = "tool" =>
                \E j \in 1..Len(conversation) :
                    /\ conversation[j].role = "assistant"
                    /\ conversation[j].tool_call_id = chatMessages[i].tool_call_id

\* The fields the schema of a tool requires (lines 114 and 134).
RequiredFields(name) ==
    IF name = "run_python_code" THEN {"code", "testCases"} ELSE {"dependency"}

\* The arguments of the action request parse and have the required fields.
SchemaValid(tc) ==
    /\ ParseOk(tc.arguments)
    /\ RequiredFields(tc.name) \subseteq tc.arguments.value.fields

\* The step takes up the action request the reasoning service returned.
RequestTakenUp ==
    /\ pc = "llm"
    /\ pc' # "llm"
    /\ toolCall' # NoToolCall
    /\ ~(Yields("Error during generation") /\ events'[Len(events')].about = <<"create">>)

\* C29: when the arguments of a run_python_code or download_dependency
\* request do not parse, or parse and lack a required field, the session
\* appends a diagnostic tool turn, increments the attempt counter by exactly
\* one, starts neither a run of the tests nor an install, and goes back to
\* the head of the loop.
C29_InvalidPayload ==
    [][(/\ RequestTakenUp
        /\ toolCall'.name \in {"run_python_code", "download_dependency"}
        /\ ~SchemaValid(toolCall')) =>
            /\ \E i \in (Len(chatMessages) + 1)..Len(chatMessages') :
                /\ chatMessages'[i].role = "tool"
                /\ chatMessages'[i].tool_call_id = toolCall'.id
            /\ attempt' = attempt + 1
            /\ pc' = "loop"
            /\ outstanding' = {}
            /\ installCalls' = installCalls]_vars

\* The text the assembled program prints when a test statement raises
\* (line 32); "e" stands for the text of the fault.
FaultReport == <<"TEST_FAILED", "e">>

\* C30: when a test statement raises during a run, the failed result that
\* runPythonCode returns has in its output the marker TEST_FAILED with the
\* fault text that the program printed.
C30_FaultReported ==
    \A c \in Callers :
        (Ran(c) /\ runs[c].proc.stdout = FaultReport) =>
            /\ ~runs[c].ret.success
            /\ Includes(runs[c].ret.output, "TEST_FAILED")
            /\ Includes(runs[c].ret.output, "e")

\* The response of the reasoning service carries no action request.
NoActionResponse ==
    /\ pc = "llm"
    /\ pc' # "llm"
    /\ toolCall' = NoToolCall
    /\ ~(Yields("Error during generation") /\ events'[Len(events')].about = <<"create">>)

\* The response carries an action request of an unrecognized name.
UnknownActionResponse ==
    /\ RequestTakenUp
    /\ toolCall'.name \notin {"run_python_code", "download_dependency"}

\* The step starts no run of the tests and no install, and leaves the
\* sandbox and the installer alone.
NoSandboxOperation ==
    /\ runTestCalls' = runTestCalls
    /\ installCalls' = installCalls
    /\ outstanding' = {}
    /\ UNCHANGED <<sandboxVars, installVars>>

\* C31: a response without an action request, and a response whose action
\* has an unrecognized name, each increment the attempt counter by exactly
\* one, emit only their progress event ('No function call received',
\* 'Unknown tool call received'), run no sandbox operation and go back to
\* the head of the loop.
C31_NoActionCycles ==
    [][/\ NoActionResponse =>
            /\ attempt' = attempt + 1
            /\ events' = Append(events, Event("No function call received", <<>>))
            /\ NoSandboxOperation
            /\ pc' = "loop"
       /\ UnknownActionResponse =>
            /\ attempt' = attempt + 1
            /\ events' = Append(events, Event("Unknown tool call received", <<>>))
            /\ NoSandboxOperation
            /\ pc' = "loop"]_vars

\* C31 witness: both cycles have happened, the second one after the first.
C31_Witness ==
    /\ pc = "loop"
    /\ attempt = 2
    /\ Len(events) = 4
    /\ events[2].kind = "No function call received"
    /\ events[4].kind = "Unknown tool call received"
    /\ runTestCalls = 0
    /\ installCalls = 0

\* runPythonCode returns a failed result whose output does not name a
\* missing module.
PlainFailureReturns ==
    /\ pc = "test"
    /\ pc' # "test"
    /\ ~result'.success
    /\ MissingDepMatch(result'.output) = NoMatch

\* The turns the step appends to the conversation.
Appended == SubSeq(chatMessages', Len(chatMessages) + 1, Len(chatMessages'))

\* C32: a failed run of the tests whose output does not match the
\* missing-module pattern appends exactly one feedback turn, which holds the
\* error output and the failed code, increments the attempt counter by
\* exactly one and starts no install.
C32_PlainFailureFeedback ==
    [][PlainFailureReturns =>
        /\ Len(chatMessages') > Len(chatMessages)
        /\ SubSeq(chatMessages', 1, Len(chatMessages)) = chatMessages
        /\ Cardinality({i \in 1..Len(Appended) : Appended[i].role = "user"}) = 1
        /\ LET turn == Appended[Len(Appended)] IN
            /\ turn.role = "user"
            /\ turn.kind = "The tests failed with the error"
            /\ turn.about[1] = result'.output
            /\ turn.about[2] = CodeOf(toolCall.arguments.value)
        /\ attempt' = attempt + 1
        /\ installCalls' = installCalls
        /\ "install" \notin outstanding'
        /\ pc' = "loop"
        /\ UNCHANGED installVars]_vars

\* C32 witness: the run of the fix "fix" failed with an assertion error and
\* the feedback turn is the last turn of the conversation.
C32_Witness ==
    /\ pc = "loop"
    /\ attempt = 1
    /\ ~result.success
    /\ result.output # <<>>
    /\ MissingDepMatch(result.output) = NoMatch
    /\ installCalls = 0
    /\ chatMessages[Len(chatMessages)].kind = "The tests failed with the error"
    /\ chatMessages[Len(chatMessages)].about = <<result.output, "fix", Prompt>>

\* The texts that start an attempt or end the stream.
AttemptStartOrTerminal == {"Attempt", "Final working fix", "Failed to generate a working fix"}

\* The texts that report the result of a run of the tests.
TestResultEvents == {"Test cases passed!", "Test cases failed"}

\* C33: every 'Generated code fix. Running test cases...' event of the
\* stream is followed, before the next attempt-start or terminal event, by a
\* test result event ('Test cases passed!' or 'Test cases failed').
C33_TestResultReported ==
    \A i \in 1..Len(events) :
        events[i].kind = "Generated code fix. Running test cases..." =>
            \A j \in (i + 1)..Len(events) :
                (/\ events[j].kind \in AttemptStartOrTerminal
                 /\ \A k \in (i + 1)..(j - 1) : events[k].kind \notin AttemptStartOrTerminal) =>
                    \E k \in (i + 1)..(j - 1) : events[k].kind \in TestResultEvents

\* The two terminal texts of lines 272-276.
TerminalEvents == {"Final working fix", "Failed to generate a working fix"}

\* The stream holds a terminal event only as its last event, and holds one
\* once the session is over.
OneTerminalEventLast ==
    /\ \A i \in 1..Len(events) : events[i].kind \in TerminalEvents => i = Len(events)
    /\ pc = "done" => (events # <<>> /\ events[Len(events)].kind \in TerminalEvents)

\* A stream that holds 'Test cases passed!' ends with 'Final working fix'.
PassedEndsWithFix ==
    (pc = "done" /\ \E i \in 1..Len(events) : events[i].kind = "Test cases passed!") =>
        events[Len(events)].kind = "Final working fix"

\* C34: the progress stream of a session that is over ends with exactly one
\* terminal event, 'Final working fix' or 'Failed to generate a working
\* fix', with no event after it; and a stream containing 'Test cases
\* passed!' ends with 'Final working fix', never with the failure event.
C34_OneTerminalEvent == OneTerminalEventLast /\ PassedEndsWithFix

\* The index request of slot r ends with the answer of the catch clause.
IndexCallFails(r) ==
    /\ reqs[r].kind = "index"
    /\ reqs[r].pc = "embedding"
    /\ reqs'[r].pc = "responded"
    /\ reqs'[r].response.status = 500

\* The index request of slot r stores all its records and answers 200.
IndexCallStores(r) ==
    /\ reqs[r].kind = "index"
    /\ reqs[r].pc = "embedding"
    /\ reqs'[r].response.status = 200
    /\ \A i \in 1..Len(reqs[r].results) : reqs[r].results[i] # Pending
    /\ Len(reqs[r].results) = Len(reqs[r].files)
    /\ codeIndex' = reqs[r].results

\* C35: an index call that fails leaves the stored index as it is, and the
\* stored index changes only when an index call succeeds, to the complete
\* result of that call: no partial result is stored and the previous
\* generation stays the one that queries scan.
C35_FailedIndexKeepsIndex ==
    [][/\ (\E r \in Reqs : IndexCallFails(r)) =>
            (codeIndex' = codeIndex /\ everIndexed' = everIndexed)
       /\ codeIndex' # codeIndex => \E r \in Reqs : IndexCallStores(r)]_vars

\* C35 witness: an index call failed after one of its records had been
\* collected, the index of the call before it is still stored, and a query
\* has been answered from it.
C35_Witness ==
    /\ reqs[1].kind = "index"
    /\ reqs[1].response.status = 500
    /\ \E i \in 1..Len(reqs[1].results) : reqs[1].results[i] # Pending
    /\ codeIndex = <<Record(File("p1", "x"), EmbeddingOf("x"))>>
    /\ Len(reqs[1].files) = 3
    /\ reqs[2].kind = "query"
    /\ reqs[2].response.status = 200
    /\ Len(reqs[2].response.results) = 1
    /\ reqs[2].response.results[1].filePath = "p1"

\* The query of slot r, which passed the test of line 187, is answered.
QueryAnswered(r) ==
    /\ reqs[r].kind = "query"
    /\ reqs[r].pc = "embedding"
    /\ reqs'[r].pc = "responded"

\* The result is a record of the index with a score.
FromIndex(res, index) ==
    \E i \in 1..Len(index) :
        /\ index[i].filePath = res.filePath
        /\ index[i].content = res.content
        /\ index[i].embedding = res.embedding

\* C36: a query that overlaps index calls is answered from the index stored
\* at the moment of its scan, every result being a record of that one
\* generation; and once it has passed the not-indexed test it fails only
\* when its own embedding fails, never because the index was replaced in
\* the meantime.
C36_QueryScansOneGeneration ==
    [][\A r \in Reqs : QueryAnswered(r) =>
        LET response == reqs'[r].response IN
        \/ /\ response.status = 500
           /\ response.error = "Error fetching embedding"
        \/ /\ response.status = 200
           /\ Len(response.results) = Min(3, Len(codeIndex))
           /\ \A k \in 1..Len(response.results) : FromIndex(response.results[k], codeIndex)
           /\ codeIndex' = codeIndex]_vars

\* C36 witness: a query passed the not-indexed test, the index was replaced
\* by an empty one while its embedding was computed, and it was answered
\* with status 200 and no result.
C36_Witness ==
    /\ reqs[2].kind = "query"
    /\ reqs[2].pc = "responded"
    /\ reqs[2].response.status = 200
    /\ reqs[2].response.results = <<>>
    /\ codeIndex = <<>>
    /\ reqs[1].kind = "index"
    /\ reqs[1].response.status = 200

\* The index request of slot r, made with an empty list of files, is
\* answered.
EmptyIndexAnswered(r) ==
    /\ reqs[r].kind = "index"
    /\ reqs[r].pc = "embedding"
    /\ reqs[r].files = <<>>
    /\ reqs'[r].pc = "responded"

\* Slot r takes a query.
QueryArrives(r) ==
    /\ Free(r)
    /\ reqs'[r] # reqs[r]
    /\ reqs'[r].kind = "query"

\* C37: an index call with an empty list of files answers 200 with a count
\* of 0 and stores the empty index; a query that arrives while the index is
\* empty is refused with the not-indexed error, after such a call as before
\* any index call.
C37_EmptyIndex ==
    [][\A r \in Reqs :
        /\ EmptyIndexAnswered(r) =>
            /\ reqs'[r].response = Response(200, "", 0, <<>>)
            /\ codeIndex' = <<>>
        /\ (QueryArrives(r) /\ codeIndex = <<>>) =>
            /\ reqs'[r].pc = "responded"
            /\ reqs'[r].response = Response(400, NotBuilt, 0, <<>>)]_vars

\* C37 witness: an index call with no file has replaced the index, and a
\* query has been refused with the not-indexed error.
C37_Witness ==
    /\ everIndexed
    /\ codeIndex = <<>>
    /\ reqs[1].kind = "index"
    /\ reqs[1].files = <<>>
    /\ reqs[1].response = Response(200, "", 0, <<>>)
    /\ reqs[2].kind = "query"
    /\ reqs[2].response = Response(400, NotBuilt, 0, <<>>)

\* The texts of the cycles that end without a turn: no action, an action of
\* an unrecognized name, an error caught by the catch clause.
IdleCycleEvents ==
    {"No function call received", "Unknown tool call received", "Error during generation"}

\* The step ends a cycle with one of these texts.
IdleCycleEnds == \E k \in IdleCycleEvents : Yields(k)

\* The step sends the conversation right after such a cycle.
GenerateAfterIdleCycle ==
    /\ pc = "loop"
    /\ pc' = "llm"
    /\ events # <<>>
    /\ events[Len(events)].kind \in IdleCycleEvents

\* C38: the conversation is append-only: its first turn is always the
\* initial prompt, every step keeps the turns it finds, the cycles that end
\* with no action, an unrecognized action or a caught error append nothing,
\* and the call of the reasoning service after such a cycle sends the turns
\* that the call before it sent.
C38_AppendOnly ==
    /\ [](chatMessages # <<>> /\ chatMessages[1] = UserTurn("prompt", Prompt))
    /\ [][/\ Len(chatMessages') >= Len(chatMessages)
          /\ SubSeq(chatMessages', 1, Len(chatMessages)) = chatMessages
          /\ IdleCycleEnds => chatMessages' = chatMessages
          /\ GenerateAfterIdleCycle => conversation' = conversation]_vars

\* C38 witness: after a cycle that appended turns (unparsable arguments) and
\* a cycle without an action, the third call sends the turns of the second.
C38_Witness ==
    /\ pc = "llm"
    /\ llmCalls = 3
    /\ Len(events) = 5
    /\ events[2].kind = "Error parsing"
    /\ events[4].kind = "No function call received"
    /\ Len(chatMessages) = 3
    /\ conversation = <<chatMessages[1], chatMessages[3]>>

====
